---- MODULE Spec2Model ----
(***************************************************************************)
(* A model of sll.py, the singly linked list module of algorithms-python.  *)
(*                                                                         *)
(* A node is a positive integer (its identity).  The heap is two maps:     *)
(* value, the nodes' value fields, and next, the nodes' next fields, which *)
(* hold a node or None.  A function of sll.py is an operator from the next *)
(* map (and the heads it is given) to the next map it leaves and the head  *)
(* it returns; its loops are recursive operators, one unfolding per        *)
(* iteration.  A sentinel is a node allocated for the call and dropped     *)
(* when the call returns.                                                  *)
(***************************************************************************)
EXTENDS Integers, Sequences, FiniteSets, TLC

VARIABLES
    values,     \* the values the lists are made from
    key,        \* the key selector passed to the function under test
    value,      \* heap: Node.value of every allocated node
    next,       \* heap: Node.next of every allocated node
    head,       \* the caller's head reference
    head1,      \* merge, overlap: first argument; has_cycle: its head (the slow pointer)
    head2,      \* merge, overlap: second argument
    fast,       \* has_cycle: the fast pointer
    iterations, \* has_cycle: completed iterations of the while loop; ownership: calls made
    call,       \* the call under way: the function and how its arguments were formed
    index,      \* benchmark_sorts: position in the tuple of sorters
    output,     \* benchmark_sorts: per sorter, the node sequence it returned
    ret,        \* the value the last call returned
    held,       \* the heads the caller holds, one per list it owns
    seen,       \* has_cycle_byhash: the set of nodes visited
    bottomup_sentinel,     \* mergesort_bottomup: sentinel, the node before the chain
    bottomup_total_length, \* mergesort_bottomup: total_length
    bottomup_delta,        \* mergesort_bottomup: delta, the block size of the pass to come
    pc          \* control position

\* The locals of mergesort_bottomup.
bottomup == <<bottomup_sentinel, bottomup_total_length, bottomup_delta>>

vars == <<values, key, value, next, head, head1, head2, fast, iterations,
          call, index, output, ret, held, seen, bottomup, pc>>

\* Bounds of the model.
MaxLen == 4
MaxVal == 1
MaxMergeLen == 3
MaxCycleLen == 7
MaxOverlapLen == 4
MaxListLen == 4
MaxListVal == 1
MaxSecondLen == 2
MaxHeldLen == 3
MaxOperations == 2
MaxBottomupLen == 5
MaxArgs == 2

None == 0
\* ret is <<>> before a call returns and <<x>> once it has returned x.
NoReturn == <<>>
Returned(x) == <<x>>
Pending == <<0>>

Values == (-1)..MaxVal
Keys == {"identity", "negate", "abs"}

\* The key selectors the callers pass: helpers._identity_function when the
\* key is omitted, lambda x: -x and abs in the doctests; and lambda x: -abs(x),
\* the key that orders as abs does, downwards.
KeyOf(k, v) ==
    CASE k = "identity" -> v
      [] k = "negate" -> -v
      [] k = "abs" -> IF v < 0 THEN -v ELSE v
      [] k = "negate abs" -> IF v < 0 THEN v ELSE -v

\* Node(None): a node not yet in the heap, its next field None.
NewNode(nx) == CHOOSE n \in 1..(Cardinality(DOMAIN nx) + 1) :
                   n \notin DOMAIN nx /\ \A m \in 1..(n - 1) : m \in DOMAIN nx
Alloc(map, n, field) ==
    [m \in DOMAIN map \cup {n} |-> IF m = n THEN field ELSE map[m]]
\* A local node goes out of scope when the call returns.
Release(nx, n) == [m \in DOMAIN nx \ {n} |-> nx[m]]

SetNext(nx, n, nxt) == [nx EXCEPT ![n] = nxt]

SeqSet(s) == {s[j] : j \in DOMAIN s}

\* helpers.pairwise and the relinking loop over it: each node's next becomes
\* its successor in the sequence.
RECURSIVE connect_pairs(_, _, _)
connect_pairs(nx, nodes, j) ==
    IF j >= Len(nodes) THEN nx
    ELSE connect_pairs(SetNext(nx, nodes[j], nodes[j + 1]), nodes, j + 1)

\* make_from: a chain of new nodes in input order behind a sentinel.
\* The list is made in the heap (val, nx) the caller has; the nodes take
\* the least unused names in order, and the sentinel, which is allocated
\* first and never part of the result, is named past them.
RECURSIVE make_from_loop(_, _, _, _, _)
make_from_loop(val, nx, pre, vals, j) ==
    IF j > Len(vals) THEN [value |-> val, next |-> nx]
    ELSE LET node == NewNode(nx)
         IN make_from_loop(Alloc(val, node, vals[j]),
                           SetNext(Alloc(nx, node, None), pre, node),
                           node, vals, j + 1)

\* make_from returning the sentinel instead of sentinel.next.
make_from_returns_sentinel(val, nx, vals) ==
    LET sentinel == Cardinality(DOMAIN nx) + Len(vals) + 1
        built == make_from_loop(Alloc(val, sentinel, None),
                                Alloc(nx, sentinel, None), sentinel, vals, 1)
    IN [value |-> built.value, next |-> built.next, head |-> sentinel]

make_from(val, nx, vals) ==
    LET sentinel == Cardinality(DOMAIN nx) + Len(vals) + 1
        built == make_from_loop(val, Alloc(nx, sentinel, None), sentinel, vals, 1)
    IN [value |-> built.value,
        next |-> Release(built.next, sentinel),
        head |-> built.next[sentinel]]

\* get_nodes: the nodes from h in list order.  The generator does not end on
\* a cycle; the unfolding is cut at the number of nodes of the heap, and a
\* list is acyclic exactly when the walk ends before that.
RECURSIVE get_nodes_from(_, _, _)
get_nodes_from(nx, h, fuel) ==
    IF h = None \/ fuel = 0 THEN <<>>
    ELSE <<h>> \o get_nodes_from(nx, nx[h], fuel - 1)

get_nodes(nx, h) == get_nodes_from(nx, h, Cardinality(DOMAIN nx) + 1)

\* length
length(nx, h) == Len(get_nodes(nx, h))

Acyclic(nx, h) == length(nx, h) <= Cardinality(DOMAIN nx)

\* advance that stays on the last node instead of walking off the end.
RECURSIVE advance_stays_on_last(_, _, _)
advance_stays_on_last(nx, h, distance) ==
    IF distance <= 0 THEN h
    ELSE IF h = None THEN None
    ELSE IF nx[h] = None THEN h
    ELSE advance_stays_on_last(nx, nx[h], distance - 1)

\* advance: the node `distance` links after h, None past the end.  (A
\* negative distance raises before the loop.)
RECURSIVE advance(_, _, _)
advance(nx, h, distance) ==
    IF distance <= 0 THEN h
    ELSE IF h = None THEN None
    ELSE advance(nx, nx[h], distance - 1)

\* split_at walking `index` links instead of index - 1.
split_at_one_too_far(nx, h, at) ==
    LET node == advance(nx, h, at)
    IN IF node = None THEN [next |-> nx, head |-> None]
       ELSE [next |-> SetNext(nx, node, None), head |-> nx[node]]

\* split_at, for index > 0: cuts the list after its first `index` nodes.
split_at(nx, h, at) ==
    LET node == advance(nx, h, at - 1)
    IN IF node = None THEN [next |-> nx, head |-> None]
       ELSE [next |-> SetNext(nx, node, None), head |-> nx[node]]

\* split: the tortoise-and-hare loop, then the cut after the tortoise.
RECURSIVE split_loop(_, _, _)
split_loop(nx, h, fst) ==
    IF fst # None /\ nx[fst] # None THEN split_loop(nx, nx[h], nx[nx[fst]])
    ELSE h

\* split with the fast pointer started on the head itself.
split_fast_from_head(nx, h) ==
    IF h = None THEN [next |-> nx, head |-> None]
    ELSE LET node == split_loop(nx, h, h)
         IN [next |-> SetNext(nx, node, None), head |-> nx[node]]

split(nx, h) ==
    IF h = None THEN [next |-> nx, head |-> None]
    ELSE LET node == split_loop(nx, h, nx[h])
         IN [next |-> SetNext(nx, node, None), head |-> nx[node]]

\* last
RECURSIVE last(_, _)
last(nx, h) ==
    IF h = None THEN None
    ELSE IF nx[h] # None THEN last(nx, nx[h])
    ELSE h

\* _connect: links the nodes in the order given, behind a sentinel, and
\* ends the chain with None.
connect(nx, nodes) ==
    LET sentinel == NewNode(nx)
        chain == <<sentinel>> \o nodes \o <<None>>
        linked == connect_pairs(Alloc(nx, sentinel, None), chain, 1)
    IN [next |-> Release(linked, sentinel), head |-> linked[sentinel]]

\* sorted(nodes, key=...) and list.sort: Python's sort is stable; each node
\* goes after the nodes already placed whose key is not greater.
RECURSIVE sorted_insert(_, _, _)
sorted_insert(placed, node, k) ==
    IF placed = <<>> THEN <<node>>
    ELSE IF KeyOf(k, value[placed[Len(placed)]]) <= KeyOf(k, value[node])
         THEN Append(placed, node)
    ELSE Append(sorted_insert(SubSeq(placed, 1, Len(placed) - 1), node, k),
                placed[Len(placed)])

RECURSIVE sorted_from(_, _, _, _)
sorted_from(placed, nodes, j, k) ==
    IF j > Len(nodes) THEN placed
    ELSE sorted_from(sorted_insert(placed, nodes[j], k), nodes, j + 1, k)

sorted(nodes, k) == sorted_from(<<>>, nodes, 1, k)

\* timsort
timsort(nx, h, k) == connect(nx, sorted(get_nodes(nx, h), k))

\* timsort_alt
timsort_alt(nx, h, k) ==
    IF h = None THEN [next |-> nx, head |-> None]
    ELSE LET nodes == sorted(get_nodes(nx, h), k)
             linked == connect_pairs(nx, nodes, 1)
         IN [next |-> SetNext(linked, nodes[Len(nodes)], None), head |-> nodes[1]]

\* reverse with acc = head before head.next = acc: each node links to itself.
RECURSIVE reverse_loop_links_to_self(_, _, _)
reverse_loop_links_to_self(nx, h, acc) ==
    IF h = None THEN [next |-> nx, head |-> acc]
    ELSE reverse_loop_links_to_self(SetNext(nx, h, h), nx[h], h)

\* reverse
RECURSIVE reverse_loop(_, _, _)
reverse_loop(nx, h, acc) ==
    IF h = None THEN [next |-> nx, head |-> acc]
    ELSE reverse_loop(SetNext(nx, h, acc), nx[h], h)

reverse(nx, h) == reverse_loop(nx, h, None)

\* merge with the rest of head2 forgotten when head1 runs out first.
RECURSIVE merge_loop_drops_rest(_, _, _, _, _)
merge_loop_drops_rest(nx, pre, h1, h2, k) ==
    IF h1 # None /\ h2 # None
    THEN IF KeyOf(k, value[h2]) < KeyOf(k, value[h1])
         THEN LET linked == SetNext(nx, pre, h2)
              IN merge_loop_drops_rest(linked, h2, h1, linked[h2], k)
         ELSE LET linked == SetNext(nx, pre, h1)
              IN merge_loop_drops_rest(linked, h1, linked[h1], h2, k)
    ELSE SetNext(nx, pre, h1)

\* merge taking from head2 on ties (<= for <).
RECURSIVE merge_loop_ties_from_second(_, _, _, _, _)
merge_loop_ties_from_second(nx, pre, h1, h2, k) ==
    IF h1 # None /\ h2 # None
    THEN IF KeyOf(k, value[h2]) <= KeyOf(k, value[h1])
         THEN LET linked == SetNext(nx, pre, h2)
              IN merge_loop_ties_from_second(linked, h2, h1, linked[h2], k)
         ELSE LET linked == SetNext(nx, pre, h1)
              IN merge_loop_ties_from_second(linked, h1, linked[h1], h2, k)
    ELSE SetNext(nx, pre, IF h1 # None THEN h1 ELSE h2)

\* merge: the loop takes from head2 only when its key is strictly less.
RECURSIVE merge_loop(_, _, _, _, _)
merge_loop(nx, pre, h1, h2, k) ==
    IF h1 # None /\ h2 # None
    THEN IF KeyOf(k, value[h2]) < KeyOf(k, value[h1])
         THEN LET linked == SetNext(nx, pre, h2)
              IN merge_loop(linked, h2, h1, linked[h2], k)
         ELSE LET linked == SetNext(nx, pre, h1)
              IN merge_loop(linked, h1, linked[h1], h2, k)
    ELSE SetNext(nx, pre, IF h1 # None THEN h1 ELSE h2)

merge(nx, h1, h2, k) ==
    LET sentinel == NewNode(nx)
        merged == merge_loop(Alloc(nx, sentinel, None), sentinel, h1, h2, k)
    IN [next |-> Release(merged, sentinel), head |-> merged[sentinel]]

\* The scan of insertion_sort made strict.
RECURSIVE insertion_sort_scan_strict(_, _, _, _)
insertion_sort_scan_strict(nx, pre, comparand, k) ==
    IF nx[pre] # None /\ KeyOf(k, value[nx[pre]]) < comparand
    THEN insertion_sort_scan_strict(nx, nx[pre], comparand, k)
    ELSE pre

\* The scan of insertion_sort with `if` for `while`: at most one node is passed.
insertion_sort_scan_one_step(nx, pre, comparand, k) ==
    IF nx[pre] # None /\ KeyOf(k, value[nx[pre]]) <= comparand
    THEN nx[pre]
    ELSE pre

\* insertion_sort: the inner loop stops at the last output node whose key
\* is <= the key of the node being inserted.
RECURSIVE insertion_sort_scan(_, _, _, _)
insertion_sort_scan(nx, pre, comparand, k) ==
    IF nx[pre] # None /\ KeyOf(k, value[nx[pre]]) <= comparand
    THEN insertion_sort_scan(nx, nx[pre], comparand, k)
    ELSE pre

\* insertion_sort looping while head.next: the last node is never inserted.
RECURSIVE insertion_sort_loop_skips_last(_, _, _, _)
insertion_sort_loop_skips_last(nx, out_sentinel, h, k) ==
    IF h = None \/ nx[h] = None THEN nx
    ELSE LET pre == insertion_sort_scan(nx, out_sentinel, KeyOf(k, value[h]), k)
             nxt == nx[h]
             spliced == SetNext(SetNext(nx, h, nx[pre]), pre, h)
         IN insertion_sort_loop_skips_last(spliced, out_sentinel, nxt, k)

RECURSIVE insertion_sort_loop(_, _, _, _)
insertion_sort_loop(nx, out_sentinel, h, k) ==
    IF h = None THEN nx
    ELSE LET pre == insertion_sort_scan(nx, out_sentinel, KeyOf(k, value[h]), k)
             nxt == nx[h]
             spliced == SetNext(SetNext(nx, h, nx[pre]), pre, h)
         IN insertion_sort_loop(spliced, out_sentinel, nxt, k)

insertion_sort(nx, h, k) ==
    LET out_sentinel == NewNode(nx)
        done == insertion_sort_loop(Alloc(nx, out_sentinel, None), out_sentinel, h, k)
    IN [next |-> Release(done, out_sentinel), head |-> done[out_sentinel]]

\* The scan of insertion_sort_antistable made non-strict.
RECURSIVE insertion_sort_antistable_scan_nonstrict(_, _, _, _)
insertion_sort_antistable_scan_nonstrict(nx, pre, comparand, k) ==
    IF nx[pre] # None /\ KeyOf(k, value[nx[pre]]) <= comparand
    THEN insertion_sort_antistable_scan_nonstrict(nx, nx[pre], comparand, k)
    ELSE pre

\* insertion_sort_antistable: as insertion_sort, the scan strict (<).
RECURSIVE insertion_sort_antistable_scan(_, _, _, _)
insertion_sort_antistable_scan(nx, pre, comparand, k) ==
    IF nx[pre] # None /\ KeyOf(k, value[nx[pre]]) < comparand
    THEN insertion_sort_antistable_scan(nx, nx[pre], comparand, k)
    ELSE pre

RECURSIVE insertion_sort_antistable_loop(_, _, _, _)
insertion_sort_antistable_loop(nx, out_sentinel, h, k) ==
    IF h = None THEN nx
    ELSE LET pre == insertion_sort_antistable_scan(nx, out_sentinel,
                                                   KeyOf(k, value[h]), k)
             nxt == nx[h]
             spliced == SetNext(SetNext(nx, h, nx[pre]), pre, h)
         IN insertion_sort_antistable_loop(spliced, out_sentinel, nxt, k)

insertion_sort_antistable(nx, h, k) ==
    LET out_sentinel == NewNode(nx)
        done == insertion_sort_antistable_loop(Alloc(nx, out_sentinel, None),
                                               out_sentinel, h, k)
    IN [next |-> Release(done, out_sentinel), head |-> done[out_sentinel]]

\* The scan of insertion_sort_alt made non-strict.
RECURSIVE insertion_sort_alt_scan_nonstrict(_, _, _, _)
insertion_sort_alt_scan_nonstrict(nx, pre, comparand, k) ==
    IF nx[pre] # None /\ comparand <= KeyOf(k, value[nx[pre]])
    THEN insertion_sort_alt_scan_nonstrict(nx, nx[pre], comparand, k)
    ELSE pre

\* insertion_sort_alt: the scan passes the output nodes whose key is
\* strictly greater (comparand < key), and the result is reversed.
RECURSIVE insertion_sort_alt_scan(_, _, _, _)
insertion_sort_alt_scan(nx, pre, comparand, k) ==
    IF nx[pre] # None /\ comparand < KeyOf(k, value[nx[pre]])
    THEN insertion_sort_alt_scan(nx, nx[pre], comparand, k)
    ELSE pre

RECURSIVE insertion_sort_alt_loop(_, _, _, _)
insertion_sort_alt_loop(nx, out_sentinel, h, k) ==
    IF h = None THEN nx
    ELSE LET pre == insertion_sort_alt_scan(nx, out_sentinel, KeyOf(k, value[h]), k)
             nxt == nx[h]
             spliced == SetNext(SetNext(nx, h, nx[pre]), pre, h)
         IN insertion_sort_alt_loop(spliced, out_sentinel, nxt, k)

insertion_sort_alt(nx, h, k) ==
    LET out_sentinel == NewNode(nx)
        done == insertion_sort_alt_loop(Alloc(nx, out_sentinel, None),
                                        out_sentinel, h, k)
    IN reverse(Release(done, out_sentinel), done[out_sentinel])

\* mergesort: top-down; the halves are sorted one after the other, each
\* call working on the heap the previous one left.
RECURSIVE mergesort(_, _, _)
mergesort(nx, h, k) ==
    IF h = None \/ nx[h] = None THEN [next |-> nx, head |-> h]
    ELSE LET halves == split(nx, h)
             left == mergesort(halves.next, h, k)
             right == mergesort(left.next, halves.head, k)
         IN merge(right.next, left.head, right.head, k)

\* The pass of mergesort_bottomup without `pre.next = high`: what follows
\* the two merged blocks is not attached again.
RECURSIVE mergesort_bottomup_pass_forgets_high(_, _, _, _)
mergesort_bottomup_pass_forgets_high(nx, pre, delta_, k) ==
    IF nx[pre] = None THEN nx
    ELSE LET low == nx[pre]
             first == split_at(nx, low, delta_)
             mid == first.head
         IN IF mid = None THEN first.next
            ELSE LET second == split_at(first.next, mid, delta_)
                     high == second.head
                     merged == merge(second.next, low, mid, k)
                     attached == SetNext(merged.next, pre, merged.head)
                 IN IF high = None THEN attached
                    ELSE LET tail == last(attached, attached[pre])
                         IN mergesort_bottomup_pass_forgets_high(attached, tail, delta_, k)

\* mergesort_bottomup, the inner while loop: one pass over the chain behind
\* the sentinel, merging consecutive blocks of delta nodes.
RECURSIVE mergesort_bottomup_pass(_, _, _, _)
mergesort_bottomup_pass(nx, pre, delta, k) ==
    IF nx[pre] = None THEN nx
    ELSE LET low == nx[pre]
             first == split_at(nx, low, delta)
             mid == first.head
         IN IF mid = None THEN first.next
            ELSE LET second == split_at(first.next, mid, delta)
                     high == second.head
                     merged == merge(second.next, low, mid, k)
                     attached == SetNext(merged.next, pre, merged.head)
                 IN IF high = None THEN attached
                    ELSE LET tail == last(attached, attached[pre])
                         IN mergesort_bottomup_pass(SetNext(attached, tail, high),
                                                    tail, delta, k)

\* The outer loop of mergesort_bottomup stopping one pass early.
RECURSIVE mergesort_bottomup_loop_stops_early(_, _, _, _, _)
mergesort_bottomup_loop_stops_early(nx, sentinel, total_length, delta, k) ==
    IF 2 * delta < total_length
    THEN mergesort_bottomup_loop_stops_early(
             mergesort_bottomup_pass(nx, sentinel, delta, k),
             sentinel, total_length, 2 * delta, k)
    ELSE nx

\* mergesort_bottomup, the outer while loop: delta doubles up to the length.
RECURSIVE mergesort_bottomup_loop(_, _, _, _, _)
mergesort_bottomup_loop(nx, sentinel, total_length, delta, k) ==
    IF delta < total_length
    THEN mergesort_bottomup_loop(mergesort_bottomup_pass(nx, sentinel, delta, k),
                                 sentinel, total_length, 2 * delta, k)
    ELSE nx

mergesort_bottomup(nx, h, k) ==
    LET sentinel == NewNode(nx)
        done == mergesort_bottomup_loop(Alloc(nx, sentinel, h), sentinel,
                                        length(nx, h), 1, k)
    IN [next |-> Release(done, sentinel), head |-> done[sentinel]]

\* get_values
get_values(nx, h) == [j \in DOMAIN get_nodes(nx, h) |-> value[get_nodes(nx, h)[j]]]

\* is_sorted (helpers.is_sorted over get_values): every adjacent pair is in
\* order by key.
is_sorted(nx, h, k) ==
    LET vals == get_values(nx, h)
    IN \A j \in 1..(Len(vals) - 1) : KeyOf(k, vals[j]) <= KeyOf(k, vals[j + 1])

BoundedSeq(S, n) == UNION {[1..m -> S] : m \in 0..n}

EmptyHeap == [n \in {} |-> None]

(***************************************************************************)
(* The sorts, driven as benchmark_sorts drives them: each sorter in turn   *)
(* sorts a list newly made from the same values, and the result is checked *)
(* for its length and its order.  The key selector is the caller's.        *)
(***************************************************************************)
Sorters == <<"timsort", "timsort_alt", "insertion_sort", "insertion_sort_antistable",
             "insertion_sort_alt", "mergesort", "mergesort_bottomup">>

InitSort ==
    /\ values \in BoundedSeq(Values, MaxLen)
    /\ key \in Keys
    /\ value = EmptyHeap
    /\ next = EmptyHeap
    /\ head = None
    /\ head1 = None
    /\ head2 = None
    /\ fast = None
    /\ iterations = 0
    /\ call = <<>>
    /\ index = 1
    /\ bottomup_sentinel = None
    /\ bottomup_total_length = 0
    /\ bottomup_delta = 0
    /\ seen = {}
    /\ held = {}
    /\ output = [s \in SeqSet(Sorters) |-> Pending]
    /\ ret = NoReturn
    /\ pc = "make"

\* head = make_from(values)
MakeFrom ==
    /\ pc = "make"
    /\ index <= Len(Sorters)
    /\ LET made == make_from(EmptyHeap, EmptyHeap, values)
       IN /\ value' = made.value
          /\ next' = made.next
          /\ head' = made.head
    /\ pc' = "sort"
    /\ UNCHANGED <<held, seen, bottomup, values, key, head1, head2, fast, iterations, call, index, output, ret>>

\* head = sorter(head), then the check of benchmark_sorts.
SortHead(sorter, sorted_list) ==
    /\ pc = "sort"
    /\ Sorters[index] = sorter
    /\ next' = sorted_list.next
    /\ head' = sorted_list.head
    /\ ret' = Returned(sorted_list.head)
    /\ call' = <<sorter>>
    /\ output' = [output EXCEPT ![sorter] = get_nodes(sorted_list.next, sorted_list.head)]
    /\ index' = index + 1
    /\ pc' = IF /\ length(sorted_list.next, sorted_list.head) = Len(values)
                /\ is_sorted(sorted_list.next, sorted_list.head, key)
             THEN IF index = Len(Sorters) THEN "done" ELSE "make"
             ELSE "failed"
    /\ UNCHANGED <<held, seen, bottomup, values, key, value, head1, head2, fast, iterations>>

Timsort == SortHead("timsort", timsort(next, head, key))
TimsortAlt == SortHead("timsort_alt", timsort_alt(next, head, key))
InsertionSort == SortHead("insertion_sort", insertion_sort(next, head, key))
InsertionSortAntistable ==
    SortHead("insertion_sort_antistable", insertion_sort_antistable(next, head, key))
InsertionSortAlt == SortHead("insertion_sort_alt", insertion_sort_alt(next, head, key))
Mergesort == SortHead("mergesort", mergesort(next, head, key))
MergesortBottomup == SortHead("mergesort_bottomup", mergesort_bottomup(next, head, key))

NextSort ==
    \/ MakeFrom
    \/ Timsort
    \/ TimsortAlt
    \/ InsertionSort
    \/ InsertionSortAntistable
    \/ InsertionSortAlt
    \/ Mergesort
    \/ MergesortBottomup

SpecSort == InitSort /\ [][NextSort]_vars

(***************************************************************************)
(* Properties of the sorts.                                                *)
(***************************************************************************)
\* The nodes of the list the sorter was given, in input order.
InputNodes ==
    LET made == make_from(EmptyHeap, EmptyHeap, values)
    IN get_nodes(made.next, made.head)

Position(nodes, n) == CHOOSE j \in DOMAIN nodes : nodes[j] = n

NonDecreasing(nodes, k) ==
    \A i, j \in DOMAIN nodes :
        i < j => KeyOf(k, value[nodes[i]]) <= KeyOf(k, value[nodes[j]])

ExactlyTheNodes(nodes, given) ==
    /\ Len(nodes) = Len(given)
    /\ SeqSet(nodes) = SeqSet(given)

\* Nodes with equal keys are in the order they have in `given`.
TiesKeepOrder(nodes, given, k) ==
    \A i, j \in DOMAIN nodes :
        (i < j /\ KeyOf(k, value[nodes[i]]) = KeyOf(k, value[nodes[j]]))
            => Position(given, nodes[i]) < Position(given, nodes[j])

\* Nodes with equal keys are in the reverse of the order they have in `given`.
TiesReverseOrder(nodes, given, k) ==
    \A i, j \in DOMAIN nodes :
        (i < j /\ KeyOf(k, value[nodes[i]]) = KeyOf(k, value[nodes[j]]))
            => Position(given, nodes[i]) > Position(given, nodes[j])

Sorted(sorter) == output[sorter] # Pending

JustSorted == pc \in {"make", "done", "failed"} /\ index > 1

\* C1: every sorter returns an acyclic list, non-decreasing by key, made of
\* exactly the nodes of its input, each once, their values unchanged; the
\* check of benchmark_sorts never fails.
C1_SortsOrderAndKeepNodes ==
    /\ pc # "failed"
    /\ JustSorted =>
        /\ Acyclic(next, head)
        /\ get_nodes(next, head) = output[Sorters[index - 1]]
        /\ DOMAIN next = SeqSet(InputNodes)
        /\ \A n \in DOMAIN value : value[n] = values[Position(InputNodes, n)]
    /\ \A s \in SeqSet(Sorters) :
        Sorted(s) => /\ NonDecreasing(output[s], key)
                     /\ ExactlyTheNodes(output[s], InputNodes)

C1_Witness ==
    /\ pc = "done"
    /\ values = <<1, -1, 0, -1>>
    /\ key = "identity"
    /\ \A s \in SeqSet(Sorters) : Len(output[s]) = 4 /\ output[s][4] = 1

\* C2: insertion_sort is stable: nodes whose keys are equal leave in the
\* order they came in.
C2_InsertionSortStable ==
    Sorted("insertion_sort") => TiesKeepOrder(output["insertion_sort"], InputNodes, key)

\* [5, 3a, 3b, 2] gives [2, 3a, 3b, 5].
C2_Witness ==
    /\ values = <<1, 0, 0, -1>>
    /\ key = "identity"
    /\ output["insertion_sort"] = <<4, 2, 3, 1>>

\* C3: insertion_sort_antistable is antistable: nodes whose keys are equal
\* leave in the reverse of the order they came in.
C3_InsertionSortAntistable ==
    Sorted("insertion_sort_antistable") =>
        TiesReverseOrder(output["insertion_sort_antistable"], InputNodes, key)

\* [5, 3a, 3b, 2] gives [2, 3b, 3a, 5].
C3_Witness ==
    /\ values = <<1, 0, 0, -1>>
    /\ key = "identity"
    /\ output["insertion_sort_antistable"] = <<4, 3, 2, 1>>

\* C4: insertion_sort_alt is ascending and stable, so it returns the very
\* node sequence insertion_sort returns.
C4_InsertionSortAltStable ==
    Sorted("insertion_sort_alt") =>
        /\ NonDecreasing(output["insertion_sort_alt"], key)
        /\ TiesKeepOrder(output["insertion_sort_alt"], InputNodes, key)
        /\ output["insertion_sort_alt"] = output["insertion_sort"]

C4_Witness ==
    /\ values = <<1, 0, 0, -1>>
    /\ key = "abs"
    /\ output["insertion_sort_alt"] = <<2, 3, 1, 4>>

\* C5: mergesort and mergesort_bottomup are stable.
C5_MergesortsStable ==
    \A s \in {"mergesort", "mergesort_bottomup"} :
        Sorted(s) => TiesKeepOrder(output[s], InputNodes, key)

C5_Witness ==
    /\ values = <<0, 1, -1, 1>>
    /\ key = "abs"
    /\ output["mergesort"] = <<1, 2, 3, 4>>
    /\ output["mergesort_bottomup"] = <<1, 2, 3, 4>>

\* C6: on the same input and key, mergesort and mergesort_bottomup return
\* the same sequence of nodes.
C6_MergesortsAgree ==
    Sorted("mergesort_bottomup") => output["mergesort_bottomup"] = output["mergesort"]

C6_Witness ==
    /\ Len(values) = 3
    /\ key = "negate"
    /\ output["mergesort"] = <<2, 3, 1>>
    /\ output["mergesort_bottomup"] = <<2, 3, 1>>

(***************************************************************************)
(* merge, called on two separate lists, each sorted by the key.            *)
(***************************************************************************)
SortedSeqs(k, n) ==
    {vals \in BoundedSeq(Values, n) :
        \A j \in 1..(Len(vals) - 1) : KeyOf(k, vals[j]) <= KeyOf(k, vals[j + 1])}

\* The two lists as the caller makes them, one make_from after the other.
TwoLists(vals1, vals2) ==
    LET made1 == make_from(EmptyHeap, EmptyHeap, vals1)
        made2 == make_from(made1.value, made1.next, vals2)
    IN [value |-> made2.value, next |-> made2.next,
        head1 |-> made1.head, head2 |-> made2.head]

InitMerge ==
    /\ key \in Keys
    /\ values \in SortedSeqs(key, MaxMergeLen) \X SortedSeqs(key, MaxMergeLen)
    /\ LET made == TwoLists(values[1], values[2])
       IN /\ value = made.value
          /\ next = made.next
          /\ head1 = made.head1
          /\ head2 = made.head2
    /\ head = None
    /\ fast = None
    /\ iterations = 0
    /\ call = <<>>
    /\ index = 1
    /\ bottomup_sentinel = None
    /\ bottomup_total_length = 0
    /\ bottomup_delta = 0
    /\ seen = {}
    /\ held = {}
    /\ output = [s \in SeqSet(Sorters) |-> Pending]
    /\ ret = NoReturn
    /\ pc = "made"

\* head = merge(head1, head2, key=key)
Merge ==
    /\ pc = "made"
    /\ LET merged == merge(next, head1, head2, key)
       IN /\ next' = merged.next
          /\ ret' = Returned(merged.head)
          /\ head' = merged.head
    /\ call' = <<"merge">>
    /\ pc' = "done"
    /\ UNCHANGED <<held, seen, bottomup, values, key, value, head1, head2, fast, iterations, index, output>>

NextMerge == Merge

SpecMerge == InitMerge /\ [][NextMerge]_vars

\* The nodes of the two lists merge was given, in their order.
MergeInput1 ==
    LET made == TwoLists(values[1], values[2]) IN get_nodes(made.next, made.head1)
MergeInput2 ==
    LET made == TwoLists(values[1], values[2]) IN get_nodes(made.next, made.head2)

KeepsOrderOf(nodes, given) ==
    \A i, j \in DOMAIN given :
        i < j => Position(nodes, given[i]) < Position(nodes, given[j])

\* C7: merge of two separate sorted lists returns one acyclic sorted list
\* of exactly the nodes of both, no node allocated, each input's order kept
\* and, among equal keys, the nodes of head1 before those of head2; when one
\* input is empty the other head is returned.
C7_MergeStable ==
    pc = "done" =>
        LET merged == get_nodes(next, ret[1])
        IN /\ Acyclic(next, ret[1])
           /\ NonDecreasing(merged, key)
           /\ ExactlyTheNodes(merged, MergeInput1 \o MergeInput2)
           /\ DOMAIN next = SeqSet(MergeInput1) \cup SeqSet(MergeInput2)
           /\ KeepsOrderOf(merged, MergeInput1)
           /\ KeepsOrderOf(merged, MergeInput2)
           /\ \A a \in SeqSet(MergeInput1), b \in SeqSet(MergeInput2) :
                KeyOf(key, value[a]) = KeyOf(key, value[b])
                    => Position(merged, a) < Position(merged, b)
           /\ head1 = None => ret = Returned(head2)
           /\ head2 = None => ret = Returned(head1)

C7_Witness ==
    /\ pc = "done"
    /\ values = <<<<-1, 0, 1>>, <<0, 0, 1>>>>
    /\ key = "identity"
    /\ get_nodes(next, ret[1]) = <<1, 2, 4, 5, 3, 6>>

(***************************************************************************)
(* has_cycle, one iteration of its loop per step, on a list as made and on *)
(* a list whose last node has been linked back to one of its nodes, as in  *)
(* the doctests (last(d).next = advance(d, 500)).                          *)
(***************************************************************************)
\* The body of the loop with the slow pointer left where it is.
has_cycle_body_slow_stays(nx, slow, fst) == [head |-> slow, fast |-> nx[nx[fst]]]

\* The body of the loop with the fast pointer moved one link only.
has_cycle_body_fast_one_link(nx, slow, fst) == [head |-> nx[slow], fast |-> nx[fst]]

\* has_cycle, the body of the while loop: head = head.next and
\* fast = fast.next.next.
has_cycle_body(nx, slow, fst) == [head |-> nx[slow], fast |-> nx[nx[fst]]]

\* has_cycle, the test of the while loop: fast and fast.next.
has_cycle_test(nx, fst) == fst # None /\ nx[fst] # None

\* No run of the loop is followed further than this.
MaxIterations == 2 * MaxCycleLen + 2

InitCycle ==
    /\ \E n \in 0..MaxCycleLen : values = [j \in 1..n |-> 0]
    /\ key = "identity"
    /\ LET made == make_from(EmptyHeap, EmptyHeap, values)
       IN /\ value = made.value
          /\ next = made.next
          /\ head = made.head
    /\ head1 = None
    /\ head2 = None
    /\ fast = None
    /\ iterations = 0
    /\ call = <<>>
    /\ index = 1
    /\ bottomup_sentinel = None
    /\ bottomup_total_length = 0
    /\ bottomup_delta = 0
    /\ seen = {}
    /\ held = {}
    /\ output = [s \in SeqSet(Sorters) |-> Pending]
    /\ ret = NoReturn
    /\ pc = "made"

\* last(head).next = advance(head, k)
LinkBack ==
    /\ pc = "made"
    /\ head # None
    /\ \E k \in 0..(length(next, head) - 1) :
          next' = SetNext(next, last(next, head), advance(next, head, k))
    /\ pc' = "linked"
    /\ UNCHANGED <<held, seen, bottomup, values, key, value, head, head1, head2, fast, iterations, call,
                   index, output, ret>>

\* has_cycle(head): fast = head
HasCycleCall ==
    /\ pc \in {"made", "linked"}
    /\ head1' = head
    /\ fast' = head
    /\ iterations' = 0
    /\ call' = <<"has_cycle", pc>>
    /\ pc' = "loop"
    /\ UNCHANGED <<held, seen, bottomup, values, key, value, next, head, head2, index, output, ret>>

\* One iteration: both pointers move, and a meeting returns True.
HasCycleIterate ==
    /\ pc = "loop"
    /\ iterations < MaxIterations
    /\ has_cycle_test(next, fast)
    /\ LET moved == has_cycle_body(next, head1, fast)
       IN /\ head1' = moved.head
          /\ fast' = moved.fast
          /\ IF moved.head = moved.fast
             THEN ret' = Returned(TRUE) /\ pc' = "done"
             ELSE ret' = ret /\ pc' = "loop"
    /\ iterations' = iterations + 1
    /\ UNCHANGED <<held, seen, bottomup, values, key, value, next, head, head2, call, index, output>>

\* The loop ends with fast or fast.next None: return False.
HasCycleReturnFalse ==
    /\ pc = "loop"
    /\ ~has_cycle_test(next, fast)
    /\ ret' = Returned(FALSE)
    /\ pc' = "done"
    /\ UNCHANGED <<held, seen, bottomup, values, key, value, next, head, head1, head2, fast, iterations,
                   call, index, output>>

NextCycle ==
    \/ LinkBack
    \/ HasCycleCall
    \/ HasCycleIterate
    \/ HasCycleReturnFalse

SpecCycle == InitCycle /\ [][NextCycle]_vars

\* The code runs on once called: a step that can be taken is taken.
SpecCycleFair == SpecCycle /\ WF_vars(NextCycle)

\* The walk from the head: all of an acyclic list; on a list with a cycle,
\* every node once and then the node the cycle comes back to.
Walk == get_nodes(next, head)
NodeCount == Cardinality(DOMAIN next)
FirstPosition(nodes, n) ==
    CHOOSE j \in DOMAIN nodes : nodes[j] = n /\ \A i \in 1..(j - 1) : nodes[i] # n
\* Links from the head to the cycle, and links around the cycle.
TailLength == FirstPosition(Walk, Walk[NodeCount + 1]) - 1
CycleLength == NodeCount - TailLength

\* C8: has_cycle returns True exactly when the walk from head comes back to
\* a node: False on every list as made (empty and single-node too), True
\* once the last node is linked back to a node of the list, itself included.
C8_HasCycleDetects ==
    pc = "done" =>
        /\ ret = Returned(TRUE) <=> ~Acyclic(next, head)
        /\ call[2] = "made" => ret = Returned(FALSE)
        /\ call[2] = "linked" => ret = Returned(TRUE)

C8_Witness ==
    /\ pc = "done"
    /\ NodeCount = 4
    /\ next[4] = 4
    /\ ret = Returned(TRUE)

\* C9: has_cycle terminates: the loop never runs more iterations than there
\* are nodes reachable from head; on an acyclic list it ends with the fast
\* pointer at the end, on a list with a cycle the pointers meet within one
\* cycle length of iterations after the slow pointer has entered the cycle.
C9_Bounded ==
    /\ pc \in {"loop", "done"} => iterations <= Cardinality(SeqSet(Walk))
    /\ (pc = "done" /\ ret = Returned(FALSE)) =>
          /\ Acyclic(next, head)
          /\ fast = None \/ next[fast] = None
    /\ (pc = "done" /\ ret = Returned(TRUE)) =>
          /\ head1 = fast
          /\ iterations >= TailLength
          /\ iterations - TailLength <= CycleLength

\* C9: the bounds above hold throughout, and every call of has_cycle
\* returns.
C9_HasCycleTerminates == []C9_Bounded /\ <>(pc = "done")

C9_Witness ==
    /\ pc = "done"
    /\ NodeCount = 5
    /\ next[5] = 3
    /\ ret = Returned(TRUE)
    /\ iterations = 3

(***************************************************************************)
(* overlap, called on two lists made separately, on two lists joined to a  *)
(* common third list, and on a list and one of its suffixes.               *)
(***************************************************************************)
Raised(error) == <<"raised", error>>

\* concat linking `second` to the sentinel itself, last() forgotten.
concat_links_the_sentinel(nx, first, second) ==
    LET sentinel == NewNode(nx)
        placed == Alloc(nx, sentinel, first)
        joined == SetNext(placed, sentinel, second)
    IN [next |-> Release(joined, sentinel), head |-> joined[sentinel]]

\* concat: the last node behind a sentinel placed before `first` takes
\* `second` as its next.
concat(nx, first, second) ==
    LET sentinel == NewNode(nx)
        placed == Alloc(nx, sentinel, first)
        joined == SetNext(placed, last(placed, sentinel), second)
    IN [next |-> Release(joined, sentinel), head |-> joined[sentinel]]

\* _advance_longer, the first loop: both leaders move until one runs out.
RECURSIVE advance_longer_leaders(_, _, _)
advance_longer_leaders(nx, leader1, leader2) ==
    IF leader1 # None /\ leader2 # None
    THEN advance_longer_leaders(nx, nx[leader1], nx[leader2])
    ELSE [leader1 |-> leader1, leader2 |-> leader2]

\* _advance_longer, the second and third loops: the head moves on while its
\* leader has not run out.
RECURSIVE advance_longer_catch_up(_, _, _)
advance_longer_catch_up(nx, h, leader) ==
    IF leader # None THEN advance_longer_catch_up(nx, nx[h], nx[leader])
    ELSE h

\* _advance_longer with the loop for the second list left out.
advance_longer_first_only(nx, h1, h2) ==
    LET leaders == advance_longer_leaders(nx, h1, h2)
    IN [head1 |-> advance_longer_catch_up(nx, h1, leaders.leader1),
        head2 |-> h2]

\* _advance_longer
advance_longer(nx, h1, h2) ==
    LET leaders == advance_longer_leaders(nx, h1, h2)
    IN [head1 |-> advance_longer_catch_up(nx, h1, leaders.leader1),
        head2 |-> advance_longer_catch_up(nx, h2, leaders.leader2)]

\* overlap, the loop with its two assertions.
RECURSIVE overlap_loop(_, _, _)
overlap_loop(nx, h1, h2) ==
    IF h1 # None
    THEN IF h2 = None THEN Raised("AssertionError")
         ELSE IF h1 = h2 THEN Returned(TRUE)
         ELSE overlap_loop(nx, nx[h1], nx[h2])
    ELSE IF h2 # None THEN Raised("AssertionError")
    ELSE Returned(FALSE)

\* overlap
overlap(nx, h1, h2) ==
    LET suffixes == advance_longer(nx, h1, h2)
    IN overlap_loop(nx, suffixes.head1, suffixes.head2)

\* Three lists made one after the other.
ThreeLists(vals1, vals2, vals3) ==
    LET made == TwoLists(vals1, vals2)
        made3 == make_from(made.value, made.next, vals3)
    IN [value |-> made3.value, next |-> made3.next,
        head1 |-> made.head1, head2 |-> made.head2, head3 |-> made3.head]

\* The lists hold equal values: only the identity of a node tells them apart.
InitOverlap ==
    /\ \E a, b, c \in 0..MaxOverlapLen :
          values = <<[j \in 1..a |-> 0], [j \in 1..b |-> 0], [j \in 1..c |-> 0]>>
    /\ key = "identity"
    /\ LET made == ThreeLists(values[1], values[2], values[3])
       IN /\ value = made.value
          /\ next = made.next
          /\ head1 = made.head1
          /\ head2 = made.head2
          /\ head = made.head3
    /\ fast = None
    /\ iterations = 0
    /\ call = <<>>
    /\ index = 1
    /\ bottomup_sentinel = None
    /\ bottomup_total_length = 0
    /\ bottomup_delta = 0
    /\ seen = {}
    /\ held = {}
    /\ output = [s \in SeqSet(Sorters) |-> Pending]
    /\ ret = NoReturn
    /\ pc = "made"

\* head1 = concat(head1, head); head2 = concat(head2, head): the third list
\* becomes the common end of the other two.
JoinShared ==
    /\ pc = "made"
    /\ LET joined1 == concat(next, head1, head)
           joined2 == concat(joined1.next, head2, head)
       IN /\ next' = joined2.next
          /\ head1' = joined1.head
          /\ head2' = joined2.head
    /\ pc' = "joined"
    /\ UNCHANGED <<held, seen, bottomup, values, key, value, head, fast, iterations, call, index, output, ret>>

\* The second argument is advance(head1, k): a suffix of the first list,
\* empty when k is its length.
TakeSuffix ==
    /\ pc = "made"
    /\ \E k \in 0..length(next, head1) :
          /\ head2' = advance(next, head1, k)
          /\ call' = <<"advance", k>>
    /\ pc' = "suffix"
    /\ UNCHANGED <<held, seen, bottomup, values, key, value, next, head, head1, fast, iterations, index,
                   output, ret>>

\* The first argument is advance(L, k) and the second is L.
TakeSuffixFirst ==
    /\ pc = "made"
    /\ \E k \in 0..length(next, head1) :
          /\ head1' = advance(next, head1, k)
          /\ call' = <<"advance", k>>
    /\ head2' = head1
    /\ pc' = "suffix"
    /\ UNCHANGED <<held, seen, bottomup, values, key, value, next, head, fast, iterations, index, output, ret>>

\* overlap(head1, head2)
Overlap ==
    /\ pc \in {"made", "joined", "suffix"}
    /\ ret' = overlap(next, head1, head2)
    /\ call' = <<"overlap", pc>>
    /\ pc' = "done"
    /\ UNCHANGED <<held, seen, bottomup, values, key, value, next, head, head1, head2, fast, iterations,
                   index, output>>

NextOverlap ==
    \/ JoinShared
    \/ TakeSuffix
    \/ TakeSuffixFirst
    \/ Overlap

SpecOverlap == InitOverlap /\ [][NextOverlap]_vars

SharedNodes == SeqSet(get_nodes(next, head1)) \cap SeqSet(get_nodes(next, head2))

\* C10: overlap of two acyclic lists returns True exactly when a node is
\* reachable from both heads: False for lists made separately, whatever
\* their values, and when either list is empty; True for a list and any of
\* its non-empty suffixes, in either order of the arguments.
C10_OverlapDetectsSharedNode ==
    (pc = "done" /\ Acyclic(next, head1) /\ Acyclic(next, head2)) =>
        /\ ret = Returned(SharedNodes # {})
        /\ call[2] = "made" => ret = Returned(FALSE)
        /\ (head1 = None \/ head2 = None) => ret = Returned(FALSE)
        /\ (call[2] = "suffix" /\ head1 # None /\ head2 # None) => ret = Returned(TRUE)

C10_Witness ==
    /\ pc = "done"
    /\ call[2] = "suffix"
    /\ head1 = 3
    /\ head2 = 1
    /\ ret = Returned(TRUE)

\* C11: neither assertion of overlap fails on acyclic lists: _advance_longer
\* leaves two suffixes of equal length, so the two heads run out together.
C11_OverlapAssertionsHold ==
    pc = "done" =>
        LET suffixes == advance_longer(next, head1, head2)
        IN /\ length(next, suffixes.head1) = length(next, suffixes.head2)
           /\ ret # Raised("AssertionError")
           /\ ret \in {Returned(TRUE), Returned(FALSE)}

C11_Witness ==
    /\ pc = "done"
    /\ call[2] = "joined"
    /\ length(next, head1) = 4
    /\ length(next, head2) = 2
    /\ head1 # advance_longer(next, head1, head2).head1
    /\ ret = Returned(TRUE)

(***************************************************************************)
(* The list operations, each called on a list as made: advance, split_at,  *)
(* split, reverse (once and twice), split_by, concat (of two lists made    *)
(* separately, and of the halves split leaves), copy and copy_alt.         *)
(***************************************************************************)
\* The predicates of the split_by doctests: lambda x: x % 2 == 0,
\* lambda x: x < 8 and lambda x: x <= 0.
Predicates == {"even", "below 8", "not positive"}
Satisfies(predicate, v) ==
    CASE predicate = "even" -> v % 2 = 0
      [] predicate = "below 8" -> v < 8
      [] predicate = "not positive" -> v <= 0

\* advance as called: a negative distance raises before the walk.
advance_call(nx, h, distance) ==
    IF distance < 0 THEN Raised("ValueError")
    ELSE Returned(advance(nx, h, distance))

\* split_at refusing only a negative index.
split_at_call_refuses_negative_only(nx, h, at) ==
    IF at < 0 THEN [next |-> nx, ret |-> Raised("ValueError")]
    ELSE LET cut == split_at(nx, h, at)
         IN [next |-> cut.next, ret |-> Returned(cut.head)]

\* split_at as called: a non-positive index raises before the walk and the
\* cut.
split_at_call(nx, h, at) ==
    IF at <= 0 THEN [next |-> nx, ret |-> Raised("ValueError")]
    ELSE LET cut == split_at(nx, h, at)
         IN [next |-> cut.next, ret |-> Returned(cut.head)]

\* split_by without the last line, which ends the two sides.
RECURSIVE split_by_loop_sides_not_ended(_, _, _, _, _)
split_by_loop_sides_not_ended(nx, yes, no, h, predicate) ==
    IF h = None THEN nx
    ELSE IF Satisfies(predicate, value[h])
         THEN LET linked == SetNext(nx, yes, h)
              IN split_by_loop_sides_not_ended(linked, h, no, linked[h], predicate)
    ELSE LET linked == SetNext(nx, no, h)
         IN split_by_loop_sides_not_ended(linked, yes, h, linked[h], predicate)

\* split_by, the loop: each node goes behind the last node of its side;
\* after the loop both sides are ended, yes first.
RECURSIVE split_by_loop(_, _, _, _, _)
split_by_loop(nx, yes, no, h, predicate) ==
    IF h = None THEN SetNext(SetNext(nx, yes, None), no, None)
    ELSE IF Satisfies(predicate, value[h])
         THEN LET linked == SetNext(nx, yes, h)
              IN split_by_loop(linked, h, no, linked[h], predicate)
    ELSE LET linked == SetNext(nx, no, h)
         IN split_by_loop(linked, yes, h, linked[h], predicate)

\* split_by
split_by(nx, h, predicate) ==
    LET yes_sentinel == NewNode(nx)
        with_yes == Alloc(nx, yes_sentinel, None)
        no_sentinel == NewNode(with_yes)
        done == split_by_loop(Alloc(with_yes, no_sentinel, None),
                              yes_sentinel, no_sentinel, h, predicate)
    IN [next |-> Release(Release(done, yes_sentinel), no_sentinel),
        yes |-> done[yes_sentinel],
        no |-> done[no_sentinel]]

\* get_values over a heap given whole.
values_of(val, nx, h) == [j \in DOMAIN get_nodes(nx, h) |-> val[get_nodes(nx, h)[j]]]

\* copy handing back the list it was given.
copy_returns_the_list(val, nx, h) == [value |-> val, next |-> nx, head |-> h]

\* copy: make_from(get_values(head))
copy(val, nx, h) == make_from(val, nx, values_of(val, nx, h))

\* copy_alt, the loop: a new node with the value of each node in turn.
RECURSIVE copy_alt_loop(_, _, _, _)
copy_alt_loop(val, nx, pre, h) ==
    IF h = None THEN [value |-> val, next |-> nx]
    ELSE LET node == NewNode(nx)
         IN copy_alt_loop(Alloc(val, node, val[h]),
                          SetNext(Alloc(nx, node, None), pre, node),
                          node, nx[h])

\* copy_alt; the sentinel is named past the nodes, as in make_from.
copy_alt(val, nx, h) ==
    LET sentinel == Cardinality(DOMAIN nx) + length(nx, h) + 1
        built == copy_alt_loop(val, Alloc(nx, sentinel, None), sentinel, h)
    IN [value |-> built.value,
        next |-> Release(built.next, sentinel),
        head |-> built.next[sentinel]]

ListValues == 0..MaxListVal

\* head is a list of any values, head2 a list made separately.
InitList ==
    /\ \E vals \in BoundedSeq(ListValues, MaxListLen), b \in 0..MaxSecondLen :
          values = <<vals, [j \in 1..b |-> j % 2]>>
    /\ key = "identity"
    /\ LET made == TwoLists(values[1], values[2])
       IN /\ value = made.value
          /\ next = made.next
          /\ head = made.head1
          /\ head2 = made.head2
    /\ head1 = None
    /\ fast = None
    /\ iterations = 0
    /\ call = <<>>
    /\ index = 1
    /\ bottomup_sentinel = None
    /\ bottomup_total_length = 0
    /\ bottomup_delta = 0
    /\ seen = {}
    /\ held = {}
    /\ output = [s \in SeqSet(Sorters) |-> Pending]
    /\ ret = NoReturn
    /\ pc = "made"

\* advance(head, distance)
Advance ==
    /\ pc = "made"
    /\ \E distance \in (-2)..(length(next, head) + 1) :
          /\ ret' = advance_call(next, head, distance)
          /\ call' = <<"advance", distance>>
    /\ pc' = "done"
    /\ UNCHANGED <<held, seen, bottomup, values, key, value, next, head, head1, head2, fast, iterations,
                   index, output>>

\* split_at(head, index)
SplitAt ==
    /\ pc = "made"
    /\ \E at \in (-1)..(length(next, head) + 1) :
          LET result == split_at_call(next, head, at)
          IN /\ next' = result.next
             /\ ret' = result.ret
             /\ call' = <<"split_at", at>>
    /\ pc' = "done"
    /\ UNCHANGED <<held, seen, bottomup, values, key, value, head, head1, head2, fast, iterations, index, output>>

\* split(head)
Split ==
    /\ pc = "made"
    /\ LET halves == split(next, head)
       IN /\ next' = halves.next
          /\ ret' = Returned(halves.head)
    /\ call' = <<"split">>
    /\ pc' = "done"
    /\ UNCHANGED <<held, seen, bottomup, values, key, value, head, head1, head2, fast, iterations, index, output>>

\* head = reverse(head), on the list as made and on the list just reversed.
Reverse ==
    /\ \/ pc = "made" /\ call' = <<"reverse">>
       \/ pc = "done" /\ call[1] = "reverse" /\ call' = <<"reverse twice">>
    /\ LET reversed == reverse(next, head)
       IN /\ next' = reversed.next
          /\ head' = reversed.head
          /\ ret' = Returned(reversed.head)
    /\ pc' = "done"
    /\ UNCHANGED <<held, seen, bottomup, values, key, value, head1, head2, fast, iterations, index, output>>

\* split_by(head, predicate)
SplitBy ==
    /\ pc = "made"
    /\ \E predicate \in Predicates :
          LET sides == split_by(next, head, predicate)
          IN /\ next' = sides.next
             /\ ret' = Returned(<<sides.yes, sides.no>>)
             /\ call' = <<"split_by", predicate>>
    /\ pc' = "done"
    /\ UNCHANGED <<held, seen, bottomup, values, key, value, head, head1, head2, fast, iterations, index, output>>

\* head = concat(head, head2)
Concat ==
    /\ pc = "made"
    /\ LET joined == concat(next, head, head2)
       IN /\ next' = joined.next
          /\ head' = joined.head
          /\ ret' = Returned(joined.head)
    /\ call' = <<"concat">>
    /\ pc' = "done"
    /\ UNCHANGED <<held, seen, bottomup, values, key, value, head1, head2, fast, iterations, index, output>>

\* head = concat(head, mid), mid the head split has just returned.
ConcatHalves ==
    /\ pc = "done"
    /\ call[1] = "split"
    /\ LET joined == concat(next, head, ret[1])
       IN /\ next' = joined.next
          /\ head' = joined.head
          /\ ret' = Returned(joined.head)
    /\ call' = <<"split then concat">>
    /\ UNCHANGED <<held, seen, bottomup, values, key, value, head1, head2, fast, iterations, index, output, pc>>

\* copy(head)
Copy ==
    /\ pc = "made"
    /\ LET copied == copy(value, next, head)
       IN /\ value' = copied.value
          /\ next' = copied.next
          /\ ret' = Returned(copied.head)
    /\ call' = <<"copy">>
    /\ pc' = "done"
    /\ UNCHANGED <<held, seen, bottomup, values, key, head, head1, head2, fast, iterations, index, output>>

\* copy_alt(head)
CopyAlt ==
    /\ pc = "made"
    /\ LET copied == copy_alt(value, next, head)
       IN /\ value' = copied.value
          /\ next' = copied.next
          /\ ret' = Returned(copied.head)
    /\ call' = <<"copy_alt">>
    /\ pc' = "done"
    /\ UNCHANGED <<held, seen, bottomup, values, key, head, head1, head2, fast, iterations, index, output>>

NextList ==
    \/ Advance
    \/ SplitAt
    \/ Split
    \/ Reverse
    \/ SplitBy
    \/ Concat
    \/ ConcatHalves
    \/ Copy
    \/ CopyAlt

SpecList == InitList /\ [][NextList]_vars

\* The heap and the nodes of the list as made, before the call.
Given == TwoLists(values[1], values[2])
GivenNodes == get_nodes(Given.next, Given.head1)
GivenSecond == get_nodes(Given.next, Given.head2)
Called(function) == pc = "done" /\ call[1] = function

ReverseSeq(nodes) == [j \in DOMAIN nodes |-> nodes[Len(nodes) + 1 - j]]
Ended(nodes) == nodes # <<>> => next[nodes[Len(nodes)]] = None
\* No link of the heap has changed and no node has been allocated.
HeapAsGiven == next = Given.next /\ value = Given.value

\* C12: split leaves the first ceil(n/2) nodes behind head, the last of
\* them ended, and returns the head of the other floor(n/2) nodes in order,
\* None when n <= 1; for odd n the first half has one node more.
C12_SplitHalves ==
    Called("split") =>
        LET n == Len(GivenNodes)
            firstHalf == get_nodes(next, head)
            secondHalf == get_nodes(next, ret[1])
        IN /\ firstHalf = SubSeq(GivenNodes, 1, (n + 1) \div 2)
           /\ secondHalf = SubSeq(GivenNodes, (n + 1) \div 2 + 1, n)
           /\ Ended(firstHalf) /\ Ended(secondHalf)
           /\ n <= 1 => ret = Returned(None)
           /\ n % 2 = 1 => Len(firstHalf) = Len(secondHalf) + 1
           /\ n % 2 = 0 => Len(firstHalf) = Len(secondHalf)

C12_Witness ==
    /\ Called("split")
    /\ Len(GivenNodes) = 3
    /\ get_nodes(next, head) = <<1, 2>>
    /\ ret = Returned(3)

\* C13: split_at with index >= 1 on a list of n nodes: for index < n the
\* list is cut to its first index nodes and the node that was at position
\* index is returned, heading the other n - index nodes in order; for
\* index >= n None is returned and no link is changed.
C13_SplitAtCuts ==
    (Called("split_at") /\ call[2] >= 1) =>
        LET n == Len(GivenNodes)
            at == call[2]
        IN IF at < n
           THEN /\ get_nodes(next, head) = SubSeq(GivenNodes, 1, at)
                /\ ret = Returned(GivenNodes[at + 1])
                /\ get_nodes(next, ret[1]) = SubSeq(GivenNodes, at + 1, n)
                /\ next = SetNext(Given.next, GivenNodes[at], None)
           ELSE /\ ret = Returned(None)
                /\ HeapAsGiven

C13_Witness ==
    /\ Called("split_at")
    /\ call[2] = 2
    /\ Len(GivenNodes) = 4
    /\ get_nodes(next, head) = <<1, 2>>
    /\ ret = Returned(3)

\* C14: split_at with index <= 0 and advance with distance < 0 raise
\* ValueError for every head, None too, and the list is as before the call.
C14_InvalidArgumentRaises ==
    /\ (Called("split_at") /\ call[2] <= 0) =>
          ret = Raised("ValueError") /\ HeapAsGiven
    /\ (Called("advance") /\ call[2] < 0) =>
          ret = Raised("ValueError") /\ HeapAsGiven

C14_Witness ==
    /\ Called("split_at")
    /\ call[2] = 0
    /\ Len(GivenNodes) = 4
    /\ ret = Raised("ValueError")
    /\ get_nodes(next, head) = <<1, 2, 3, 4>>

\* C15: reverse relinks the same nodes in reversed order and allocates
\* none: it returns the former last node and the former head is the tail;
\* reverse of the reversed list gives back the list as it was.
C15_ReverseReverses ==
    /\ Called("reverse") =>
          /\ get_nodes(next, head) = ReverseSeq(GivenNodes)
          /\ ret = Returned(last(Given.next, Given.head1))
          /\ ret = Returned(head)
          /\ Given.head1 # None => next[Given.head1] = None
          /\ DOMAIN next = DOMAIN Given.next
          /\ value = Given.value
    /\ Called("reverse twice") =>
          /\ get_nodes(next, head) = GivenNodes
          /\ head = Given.head1
          /\ HeapAsGiven

C15_Witness ==
    /\ Called("reverse twice")
    /\ Len(GivenNodes) = 3
    /\ get_nodes(next, head) = <<1, 2, 3>>

\* C16: split_by is a stable partition by relinking: the first list holds
\* exactly the nodes whose values satisfy the predicate, the second the
\* others, each in input order, both ended and sharing no node; no node is
\* copied or lost and an empty side is None.
C16_SplitByPartitions ==
    Called("split_by") =>
        LET yes == get_nodes(next, ret[1][1])
            no == get_nodes(next, ret[1][2])
        IN /\ yes = SelectSeq(GivenNodes, LAMBDA n : Satisfies(call[2], value[n]))
           /\ no = SelectSeq(GivenNodes, LAMBDA n : ~Satisfies(call[2], value[n]))
           /\ Ended(yes) /\ Ended(no)
           /\ SeqSet(yes) \cap SeqSet(no) = {}
           /\ SeqSet(yes) \cup SeqSet(no) = SeqSet(GivenNodes)
           /\ DOMAIN next = DOMAIN Given.next
           /\ value = Given.value
           /\ yes = <<>> => ret[1][1] = None
           /\ no = <<>> => ret[1][2] = None

C16_Witness ==
    /\ Called("split_by")
    /\ call[2] = "even"
    /\ values[1] = <<1, 0, 1, 0>>
    /\ get_nodes(next, ret[1][1]) = <<2, 4>>
    /\ get_nodes(next, ret[1][2]) = <<1, 3>>

\* C17: concat of two separate lists returns a list whose values are those
\* of the first and then those of the second, the second itself when the
\* first is empty; concat of a list and what split returned for it gives
\* back the values of the list.
C17_ConcatAppends ==
    /\ Called("concat") =>
          /\ Acyclic(next, head)
          /\ values_of(value, next, head) = values[1] \o values[2]
          /\ ret = Returned(head)
          /\ values[1] = <<>> => ret = Returned(head2)
    /\ Called("split then concat") =>
          /\ Acyclic(next, head)
          /\ values_of(value, next, head) = values[1]

C17_Witness ==
    /\ Called("concat")
    /\ values = <<<<0, 1, 1>>, <<1, 0>>>>
    /\ get_nodes(next, head) = <<1, 2, 3, 4, 5>>

\* C18: copy and copy_alt return a chain of new nodes with the values of
\* the input in order, sharing no node with it (overlap is False), and
\* leave every value and link of the input as it was; the copy of an empty
\* list is None.
C18_CopyIsFresh ==
    (Called("copy") \/ Called("copy_alt")) =>
        LET copied == get_nodes(next, ret[1])
        IN /\ Acyclic(next, ret[1])
           /\ values_of(value, next, ret[1]) = values[1]
           /\ SeqSet(copied) \cap DOMAIN Given.next = {}
           /\ SeqSet(copied) \cap SeqSet(get_nodes(next, head)) = {}
           /\ overlap(next, head, ret[1]) = Returned(FALSE)
           /\ \A n \in DOMAIN Given.next :
                next[n] = Given.next[n] /\ value[n] = Given.value[n]
           /\ head = None => ret = Returned(None)

C18_Witness ==
    /\ Called("copy_alt")
    /\ values[1] = <<1, 0, 1>>
    /\ Len(get_nodes(next, ret[1])) = 3
    /\ ret[1] \notin DOMAIN Given.next

\* C20: advance with distance >= 0 on a list of n nodes returns the node
\* distance links after head for distance < n (head for 0), None for
\* distance >= n, and changes no link.
C20_AdvanceWalks ==
    (Called("advance") /\ call[2] >= 0) =>
        /\ call[2] < Len(GivenNodes) => ret = Returned(GivenNodes[call[2] + 1])
        /\ call[2] = 0 => ret = Returned(head)
        /\ call[2] >= Len(GivenNodes) => ret = Returned(None)
        /\ HeapAsGiven

C20_Witness ==
    /\ Called("advance")
    /\ call[2] = 2
    /\ Len(GivenNodes) = 4
    /\ ret = Returned(3)

(***************************************************************************)
(* The ownership discipline: the caller makes separate lists with          *)
(* make_from and then calls the mutating functions in any order, holding   *)
(* after each call only the heads the call returned or cut its argument    *)
(* down to.                                                                *)
(***************************************************************************)

\* remove_min comparing with <=: the last node of least key is unlinked.
RECURSIVE remove_min_loop_nonstrict(_, _, _, _, _)
remove_min_loop_nonstrict(nx, best, best_comparand, pre, k) ==
    IF nx[pre] = None THEN best
    ELSE LET comparand == KeyOf(k, value[nx[pre]])
         IN IF comparand <= best_comparand
            THEN remove_min_loop_nonstrict(nx, pre, comparand, nx[pre], k)
            ELSE remove_min_loop_nonstrict(nx, best, best_comparand, nx[pre], k)

\* remove_min, the loop: best is the node before the first node of least key.
RECURSIVE remove_min_loop(_, _, _, _, _)
remove_min_loop(nx, best, best_comparand, pre, k) ==
    IF nx[pre] = None THEN best
    ELSE LET comparand == KeyOf(k, value[nx[pre]])
         IN IF comparand < best_comparand
            THEN remove_min_loop(nx, pre, comparand, nx[pre], k)
            ELSE remove_min_loop(nx, best, best_comparand, nx[pre], k)

\* remove_min of a list that is not empty: the node is unlinked and keeps
\* its own next link.
remove_min(nx, h, k) ==
    LET sentinel == NewNode(nx)
        placed == Alloc(nx, sentinel, h)
        best == remove_min_loop(placed, sentinel, KeyOf(k, value[h]), h, k)
        unlinked == SetNext(placed, best, placed[placed[best]])
    IN [next |-> Release(unlinked, sentinel), head |-> unlinked[sentinel]]

sort_by(sorter, nx, h, k) ==
    CASE sorter = "timsort" -> timsort(nx, h, k)
      [] sorter = "timsort_alt" -> timsort_alt(nx, h, k)
      [] sorter = "insertion_sort" -> insertion_sort(nx, h, k)
      [] sorter = "insertion_sort_antistable" -> insertion_sort_antistable(nx, h, k)
      [] sorter = "insertion_sort_alt" -> insertion_sort_alt(nx, h, k)
      [] sorter = "mergesort" -> mergesort(nx, h, k)
      [] sorter = "mergesort_bottomup" -> mergesort_bottomup(nx, h, k)

\* Two values give every outcome of a comparison of keys: less, equal, greater.
HeldValues == {0, 1}

InitOwnership ==
    /\ \E vals \in BoundedSeq(HeldValues, MaxHeldLen), b \in 0..MaxSecondLen :
          LET second == [j \in 1..b |-> j % 2]
              made == TwoLists(vals, second)
          IN /\ values = <<vals, second>>
             /\ value = made.value
             /\ next = made.next
             /\ held = {made.head1, made.head2} \ {None}
    /\ key \in {"identity", "negate"}
    /\ head = None
    /\ head1 = None
    /\ head2 = None
    /\ fast = None
    /\ iterations = 0
    /\ call = <<>>
    /\ index = 1
    /\ bottomup_sentinel = None
    /\ bottomup_total_length = 0
    /\ bottomup_delta = 0
    /\ seen = {}
    /\ output = [s \in SeqSet(Sorters) |-> Pending]
    /\ ret = NoReturn
    /\ pc = "held"

\* After a call the caller lets go of the heads it passed and holds the
\* heads the call gave back.
Hold(nx, passed, given) ==
    /\ iterations < MaxOperations
    /\ next' = nx
    /\ held' = (held \ passed) \cup (given \ {None})
    /\ iterations' = iterations + 1
    /\ UNCHANGED <<seen, bottomup, values, key, value, head, head1, head2, fast, call, index, output,
                   ret, pc>>

\* second = split(h)
HeldSplit ==
    \E h \in held :
        LET halves == split(next, h)
        IN Hold(halves.next, {}, {halves.head})

\* second = split_at(h, at)
HeldSplitAt ==
    \E h \in held : \E at \in 1..length(next, h) :
        LET cut == split_at(next, h, at)
        IN Hold(cut.next, {}, {cut.head})

\* h = reverse(h)
HeldReverse ==
    \E h \in held :
        LET reversed == reverse(next, h)
        IN Hold(reversed.next, {h}, {reversed.head})

\* yes, no = split_by(h, predicate)
HeldSplitBy ==
    \E h \in held : \E predicate \in Predicates :
        LET sides == split_by(next, h, predicate)
        IN Hold(sides.next, {h}, {sides.yes, sides.no})

\* h = remove_min(h, key=key)
HeldRemoveMin ==
    \E h \in held :
        LET rest == remove_min(next, h, key)
        IN Hold(rest.next, {h}, {rest.head})

\* h = concat(first, second), first possibly None
HeldConcat ==
    \E first \in held \cup {None} : \E second \in held \ {first} :
        LET joined == concat(next, first, second)
        IN Hold(joined.next, {first, second}, {joined.head})

\* h = merge(first, second, key=key)
HeldMerge ==
    \E first \in held : \E second \in held \ {first} :
        LET merged == merge(next, first, second, key)
        IN Hold(merged.next, {first, second}, {merged.head})

\* h = sorter(h, key=key)
HeldSort ==
    \E h \in held : \E sorter \in SeqSet(Sorters) :
        LET sorted_list == sort_by(sorter, next, h, key)
        IN Hold(sorted_list.next, {h}, {sorted_list.head})

NextOwnership ==
    \/ HeldSplit
    \/ HeldSplitAt
    \/ HeldReverse
    \/ HeldSplitBy
    \/ HeldRemoveMin
    \/ HeldConcat
    \/ HeldMerge
    \/ HeldSort

SpecOwnership == InitOwnership /\ [][NextOwnership]_vars

\* The nodes of the lists the caller holds.
Live == UNION {SeqSet(get_nodes(next, h)) : h \in held}
Predecessors(n) == {m \in Live : next[m] = n}

\* C19: from separate acyclic lists made by make_from, after any calls of
\* the mutating functions with the caller holding only the heads returned
\* or cut down to, every held list is acyclic, no node is reachable from
\* two held heads, and every live node has at most one live predecessor.
C19_Ownership ==
    pc = "held" =>
        /\ \A h \in held : Acyclic(next, h)
        /\ \A h, g \in held :
              h # g => SeqSet(get_nodes(next, h)) \cap SeqSet(get_nodes(next, g)) = {}
        /\ \A n \in Live : Cardinality(Predecessors(n)) <= 1

C19_Witness ==
    /\ pc = "held"
    /\ iterations = 2
    /\ Cardinality(held) = 3
    /\ \E n \in DOMAIN next : n \notin Live /\ next[n] \in Live

(***************************************************************************)
(* Making a list and asking about it: make_from on an empty heap, then one *)
(* call of length, as_list, find, find_index or remove_min.                *)
(***************************************************************************)

\* as_list: list(get_values(head))
as_list(val, nx, h) == values_of(val, nx, h)

\* enumerate_values: the values paired with their indices from `start`.
enumerate_values(val, nx, h, start) ==
    [j \in DOMAIN values_of(val, nx, h) |-> <<start + j - 1, values_of(val, nx, h)[j]>>]

\* find: the first node with the value, None when the walk runs out.
RECURSIVE find(_, _, _, _)
find(val, nx, h, v) ==
    IF h = None THEN None
    ELSE IF val[h] = v THEN h
    ELSE find(val, nx, nx[h], v)

\* find_index going on after a match: the highest index is returned.
RECURSIVE find_index_loop_keeps_looking(_, _, _)
find_index_loop_keeps_looking(pairs, j, v) ==
    IF j > Len(pairs) THEN Raised("ValueError")
    ELSE LET later == find_index_loop_keeps_looking(pairs, j + 1, v)
         IN IF later # Raised("ValueError") THEN later
            ELSE IF pairs[j][2] = v THEN Returned(pairs[j][1])
            ELSE later

\* find_index, the loop over enumerate_values: the index of the first pair
\* with the value; ValueError after the loop.
RECURSIVE find_index_loop(_, _, _)
find_index_loop(pairs, j, v) ==
    IF j > Len(pairs) THEN Raised("ValueError")
    ELSE IF pairs[j][2] = v THEN Returned(pairs[j][1])
    ELSE find_index_loop(pairs, j + 1, v)

find_index(val, nx, h, v) == find_index_loop(enumerate_values(val, nx, h, 0), 1, v)

\* remove_min as called: an empty list raises before anything else.
remove_min_call(nx, h, k) ==
    IF h = None THEN [next |-> nx, ret |-> Raised("ValueError")]
    ELSE LET rest == remove_min(nx, h, k)
         IN [next |-> rest.next, ret |-> Returned(rest.head)]

InitQuery ==
    /\ values \in BoundedSeq(Values, MaxListLen)
    /\ key \in Keys
    /\ value = EmptyHeap
    /\ next = EmptyHeap
    /\ head = None
    /\ head1 = None
    /\ head2 = None
    /\ fast = None
    /\ iterations = 0
    /\ call = <<>>
    /\ index = 1
    /\ bottomup_sentinel = None
    /\ bottomup_total_length = 0
    /\ bottomup_delta = 0
    /\ seen = {}
    /\ held = {}
    /\ output = [s \in SeqSet(Sorters) |-> Pending]
    /\ ret = NoReturn
    /\ pc = "make"

\* head = make_from(values)
MakeFromValues ==
    /\ pc = "make"
    /\ LET made == make_from(EmptyHeap, EmptyHeap, values)
       IN /\ value' = made.value
          /\ next' = made.next
          /\ head' = made.head
    /\ pc' = "made"
    /\ UNCHANGED <<held, seen, bottomup, values, key, head1, head2, fast, iterations, call, index, output, ret>>

\* A call that leaves the list alone.
Ask(function, argument, result) ==
    /\ pc = "made"
    /\ ret' = result
    /\ call' = <<function, argument>>
    /\ pc' = "done"
    /\ UNCHANGED <<held, seen, bottomup, values, key, value, next, head, head1, head2, fast, iterations,
                   index, output>>

\* length(head)
Length == Ask("length", None, Returned(length(next, head)))

\* as_list(head)
AsList == Ask("as_list", None, Returned(as_list(value, next, head)))

\* find(head, v)
Find == \E v \in Values : Ask("find", v, Returned(find(value, next, head, v)))

\* find_index(head, v)
FindIndex == \E v \in Values : Ask("find_index", v, find_index(value, next, head, v))

\* remove_min(head, key=key)
RemoveMin ==
    /\ pc = "made"
    /\ LET result == remove_min_call(next, head, key)
       IN /\ next' = result.next
          /\ ret' = result.ret
    /\ call' = <<"remove_min", None>>
    /\ pc' = "done"
    /\ UNCHANGED <<held, seen, bottomup, values, key, value, head, head1, head2, fast, iterations, index, output>>

NextQuery ==
    \/ MakeFromValues
    \/ Length
    \/ AsList
    \/ Find
    \/ FindIndex
    \/ RemoveMin

SpecQuery == InitQuery /\ [][NextQuery]_vars

\* The list make_from makes of `values` on an empty heap.
Made == make_from(EmptyHeap, EmptyHeap, values)
MadeNodes == get_nodes(Made.next, Made.head)
MadeAsItWas == next = Made.next /\ value = Made.value /\ head = Made.head
\* The positions of the list where `v` is, and where the key is least.
PositionsOf(v) == {j \in DOMAIN values : values[j] = v}
Least(S) == CHOOSE j \in S : \A i \in S : j <= i
MinPositions ==
    {j \in DOMAIN values :
        \A i \in DOMAIN values : KeyOf(key, values[j]) <= KeyOf(key, values[i])}
Without(nodes, j) == SubSeq(nodes, 1, j - 1) \o SubSeq(nodes, j + 1, Len(nodes))

\* C21: remove_min on a list that is not empty unlinks exactly one node,
\* the first of least key, and returns the head of the others in their
\* order, None when there was one node; on an empty list it raises
\* ValueError.
C21_RemoveMinUnlinksFirstLeast ==
    Called("remove_min") =>
        IF values = <<>>
        THEN ret = Raised("ValueError") /\ MadeAsItWas
        ELSE /\ ret # Raised("ValueError")
             /\ get_nodes(next, ret[1]) = Without(MadeNodes, Least(MinPositions))
             /\ Len(get_nodes(next, ret[1])) = Len(values) - 1
             /\ Len(values) = 1 => ret = Returned(None)
             /\ value = Made.value

C21_Witness ==
    /\ Called("remove_min")
    /\ key = "abs"
    /\ values = <<1, 0, -1, 0>>
    /\ get_nodes(next, ret[1]) = <<1, 3, 4>>

\* C23: find_index returns the lowest zero-based index of a node with the
\* value and raises ValueError when there is none, the empty list included;
\* find returns the node at that index, None when there is none; neither
\* changes the list.
C23_FindLowest ==
    /\ Called("find_index") =>
          /\ IF PositionsOf(call[2]) = {}
             THEN ret = Raised("ValueError")
             ELSE ret = Returned(Least(PositionsOf(call[2])) - 1)
          /\ MadeAsItWas
    /\ Called("find") =>
          /\ IF PositionsOf(call[2]) = {}
             THEN ret = Returned(None)
             ELSE ret = Returned(MadeNodes[Least(PositionsOf(call[2]))])
          /\ MadeAsItWas

C23_Witness ==
    /\ Called("find_index")
    /\ values = <<0, 1, -1, 1>>
    /\ call[2] = 1
    /\ ret = Returned(1)

\* C24: make_from(s) is an acyclic chain with as_list(make_from(s)) = s and
\* length(make_from(s)) = len(s); the empty sequence gives None, and the
\* sentinel of the construction is no node of the list.
C24_MakeFromRoundTrip ==
    /\ pc = "made" =>
          /\ Acyclic(next, head)
          /\ values = <<>> <=> head = None
          /\ SeqSet(get_nodes(next, head)) = 1..Len(values)
          /\ Len(values) + 1 \notin SeqSet(get_nodes(next, head))
    /\ Called("as_list") => ret = Returned(values)
    /\ Called("length") => ret = Returned(Len(values))

C24_Witness ==
    /\ Called("as_list")
    /\ values = <<1, -1, 0, 1>>
    /\ ret = Returned(<<1, -1, 0, 1>>)
    /\ length(next, head) = 4

\* C22: on an empty or one-node list every sort is a no-op: it returns the
\* head it was given (None for the empty list) and the one node's next is
\* still None.
C22_SortsLeaveShortListsAlone ==
    (JustSorted /\ Len(values) <= 1) =>
        /\ head = Made.head
        /\ ret = Returned(Made.head)
        /\ next = Made.next
        /\ value = Made.value
        /\ \A n \in DOMAIN next : next[n] = None
        /\ \A s \in SeqSet(Sorters) : Sorted(s) => output[s] = MadeNodes

C22_Witness ==
    /\ pc = "done"
    /\ index = Len(Sorters) + 1
    /\ values = <<1>>
    /\ head = 1
    /\ next[1] = None
    /\ \A s \in SeqSet(Sorters) : output[s] = <<1>>

(***************************************************************************)
(* The three insertion sorts side by side, driven as benchmark_sorts       *)
(* drives the sorters: each run sorts a list newly made from the same      *)
(* values with the same key, and the nodes it returns and the key          *)
(* comparisons it made are kept.                                           *)
(***************************************************************************)

\* The key comparisons of one scan that started at the sentinel and stopped
\* at `pre`: one for each node passed, and one more when the scan stopped
\* in front of a node (`pre.next and ...` compares only when pre.next is a
\* node).
RECURSIVE links_between(_, _, _)
links_between(nx, from, to) ==
    IF from = to THEN 0 ELSE 1 + links_between(nx, nx[from], to)

scan_comparisons(nx, out_sentinel, pre) ==
    links_between(nx, out_sentinel, pre) + (IF nx[pre] # None THEN 1 ELSE 0)

\* insertion_sort, the key comparisons of all its scans.
RECURSIVE insertion_sort_comparisons_loop(_, _, _, _)
insertion_sort_comparisons_loop(nx, out_sentinel, h, k) ==
    IF h = None THEN 0
    ELSE LET pre == insertion_sort_scan(nx, out_sentinel, KeyOf(k, value[h]), k)
             nxt == nx[h]
             spliced == SetNext(SetNext(nx, h, nx[pre]), pre, h)
         IN scan_comparisons(nx, out_sentinel, pre)
            + insertion_sort_comparisons_loop(spliced, out_sentinel, nxt, k)

insertion_sort_comparisons(nx, h, k) ==
    LET out_sentinel == NewNode(nx)
    IN insertion_sort_comparisons_loop(Alloc(nx, out_sentinel, None), out_sentinel, h, k)

\* insertion_sort_antistable, the key comparisons of all its scans.
RECURSIVE insertion_sort_antistable_comparisons_loop(_, _, _, _)
insertion_sort_antistable_comparisons_loop(nx, out_sentinel, h, k) ==
    IF h = None THEN 0
    ELSE LET pre == insertion_sort_antistable_scan(nx, out_sentinel,
                                                   KeyOf(k, value[h]), k)
             nxt == nx[h]
             spliced == SetNext(SetNext(nx, h, nx[pre]), pre, h)
         IN scan_comparisons(nx, out_sentinel, pre)
            + insertion_sort_antistable_comparisons_loop(spliced, out_sentinel, nxt, k)

insertion_sort_antistable_comparisons(nx, h, k) ==
    LET out_sentinel == NewNode(nx)
    IN insertion_sort_antistable_comparisons_loop(Alloc(nx, out_sentinel, None),
                                                  out_sentinel, h, k)

\* lambda x: -key(x)
Negated(k) ==
    CASE k = "identity" -> "negate"
      [] k = "negate" -> "identity"
      [] k = "abs" -> "negate abs"

\* reverse(insertion_sort_antistable(head, key=k))
reverse_of_antistable(nx, h, k) ==
    LET sorted_list == insertion_sort_antistable(nx, h, k)
    IN reverse(sorted_list.next, sorted_list.head)

Runs == <<"insertion_sort", "insertion_sort_antistable", "insertion_sort_alt",
          "reverse of insertion_sort_antistable",
          "reverse of insertion_sort_antistable, key negated">>

InitInsertion ==
    /\ values \in BoundedSeq(Values, MaxLen)
    /\ key \in Keys
    /\ value = EmptyHeap
    /\ next = EmptyHeap
    /\ head = None
    /\ head1 = None
    /\ head2 = None
    /\ fast = None
    /\ iterations = 0
    /\ call = <<>>
    /\ index = 1
    /\ bottomup_sentinel = None
    /\ bottomup_total_length = 0
    /\ bottomup_delta = 0
    /\ seen = {}
    /\ held = {}
    /\ output = [r \in SeqSet(Runs) |-> Pending]
    /\ ret = NoReturn
    /\ pc = "make"

\* head = make_from(values)
MakeAgain ==
    /\ pc = "make"
    /\ index <= Len(Runs)
    /\ LET made == make_from(EmptyHeap, EmptyHeap, values)
       IN /\ value' = made.value
          /\ next' = made.next
          /\ head' = made.head
    /\ pc' = "sort"
    /\ UNCHANGED <<held, seen, bottomup, values, key, head1, head2, fast, iterations, call, index, output, ret>>

\* head = run(head, key=key); the nodes it returned are kept, and the key
\* comparisons it made (counted for insertion_sort and
\* insertion_sort_antistable, 0 standing for not counted in the other runs).
Run(run, sorted_list, comparisons) ==
    /\ pc = "sort"
    /\ Runs[index] = run
    /\ next' = sorted_list.next
    /\ head' = sorted_list.head
    /\ ret' = Returned(sorted_list.head)
    /\ call' = <<run>>
    /\ iterations' = comparisons
    /\ output' = [output EXCEPT
                    ![run] = <<get_nodes(sorted_list.next, sorted_list.head), comparisons>>]
    /\ index' = index + 1
    /\ pc' = IF index = Len(Runs) THEN "done" ELSE "make"
    /\ UNCHANGED <<held, seen, bottomup, values, key, value, head1, head2, fast>>

RunInsertionSort ==
    Run("insertion_sort", insertion_sort(next, head, key),
        insertion_sort_comparisons(next, head, key))

RunInsertionSortAntistable ==
    Run("insertion_sort_antistable", insertion_sort_antistable(next, head, key),
        insertion_sort_antistable_comparisons(next, head, key))

RunInsertionSortAlt ==
    Run("insertion_sort_alt", insertion_sort_alt(next, head, key), 0)

RunReverseOfAntistable ==
    Run("reverse of insertion_sort_antistable",
        reverse_of_antistable(next, head, key), 0)

RunReverseOfAntistableNegated ==
    Run("reverse of insertion_sort_antistable, key negated",
        reverse_of_antistable(next, head, Negated(key)), 0)

NextInsertion ==
    \/ MakeAgain
    \/ RunInsertionSort
    \/ RunInsertionSortAntistable
    \/ RunInsertionSortAlt
    \/ RunReverseOfAntistable
    \/ RunReverseOfAntistableNegated

SpecInsertion == InitInsertion /\ [][NextInsertion]_vars

Ran(run) == output[run] # Pending
NodesOf(run) == output[run][1]
ComparisonsOf(run) == output[run][2]

\* C25 as stated: insertion_sort_alt returns the node sequence of reverse
\* applied to the result of insertion_sort_antistable with the same key.
C25_AltIsReverseOfAntistable ==
    (Ran("insertion_sort_alt") /\ Ran("reverse of insertion_sort_antistable")) =>
        NodesOf("insertion_sort_alt") = NodesOf("reverse of insertion_sort_antistable")

\* C25, amended: insertion_sort_alt runs the antistable scan downwards and
\* reverses the result: it returns the node sequence of reverse applied to
\* the result of insertion_sort_antistable with the negated key.
C25_AltIsReverseOfAntistableNegated ==
    (/\ Ran("insertion_sort_alt")
     /\ Ran("reverse of insertion_sort_antistable, key negated")) =>
        NodesOf("insertion_sort_alt")
            = NodesOf("reverse of insertion_sort_antistable, key negated")

C25_Witness ==
    /\ pc = "done"
    /\ key = "abs"
    /\ values = <<1, 0, -1, 0>>
    /\ NodesOf("insertion_sort_alt") = <<2, 4, 1, 3>>
    /\ NodesOf("reverse of insertion_sort_antistable, key negated") = <<2, 4, 1, 3>>
    /\ NodesOf("reverse of insertion_sort_antistable") = <<1, 3, 2, 4>>

\* C29: insertion_sort_antistable makes no more key comparisons than
\* insertion_sort on the same input with the same key.
C29_AntistableComparesNoMore ==
    (Ran("insertion_sort") /\ Ran("insertion_sort_antistable")) =>
        ComparisonsOf("insertion_sort_antistable") <= ComparisonsOf("insertion_sort")

C29_Witness ==
    /\ Ran("insertion_sort")
    /\ Ran("insertion_sort_antistable")
    /\ values = <<0, 0, 0, 0>>
    /\ ComparisonsOf("insertion_sort_antistable") = 3
    /\ ComparisonsOf("insertion_sort") = 6

(***************************************************************************)
(* has_cycle_byhash beside has_cycle: on the list as made or with its last *)
(* node linked back, has_cycle runs to its return, the value it returned   *)
(* is kept, and has_cycle_byhash runs on the same list.                    *)
(***************************************************************************)

\* has_cycle_byhash adding the next node to seen instead of the node itself.
has_cycle_byhash_body_adds_next(nx, h, visited) ==
    [seen |-> visited \cup {nx[h]}, head |-> nx[h]]

\* has_cycle_byhash, the body of the while loop past the test of seen:
\* seen.add(head) and head = head.next.
has_cycle_byhash_body(nx, h, visited) == [seen |-> visited \cup {h}, head |-> nx[h]]

InitCycleByHash ==
    /\ \E n \in 0..MaxCycleLen : values = [j \in 1..n |-> 0]
    /\ key = "identity"
    /\ LET made == make_from(EmptyHeap, EmptyHeap, values)
       IN /\ value = made.value
          /\ next = made.next
          /\ head = made.head
    /\ head1 = None
    /\ head2 = None
    /\ fast = None
    /\ iterations = 0
    /\ call = <<>>
    /\ index = 1
    /\ bottomup_sentinel = None
    /\ bottomup_total_length = 0
    /\ bottomup_delta = 0
    /\ held = {}
    /\ seen = {}
    /\ output = NoReturn
    /\ ret = NoReturn
    /\ pc = "made"

\* has_cycle_byhash(head) after has_cycle(head) has returned: seen = set()
HasCycleByHashCall ==
    /\ pc = "done"
    /\ output' = ret
    /\ ret' = NoReturn
    /\ head1' = head
    /\ seen' = {}
    /\ iterations' = 0
    /\ call' = <<"has_cycle_byhash", call[2]>>
    /\ pc' = "byhash loop"
    /\ UNCHANGED <<held, bottomup, values, key, value, next, head, head2,
                   fast, index>>

\* One iteration: a node already in seen returns True, any other is added.
HasCycleByHashIterate ==
    /\ pc = "byhash loop"
    /\ head1 # None
    /\ IF head1 \in seen
       THEN /\ ret' = Returned(TRUE)
            /\ pc' = "byhash done"
            /\ UNCHANGED <<seen, head1>>
       ELSE LET moved == has_cycle_byhash_body(next, head1, seen)
            IN /\ seen' = moved.seen
               /\ head1' = moved.head
               /\ UNCHANGED <<ret, pc>>
    /\ iterations' = iterations + 1
    /\ UNCHANGED <<held, bottomup, values, key, value, next, head, head2,
                   fast, call, index, output>>

\* The loop ends with head None: return False.
HasCycleByHashReturnFalse ==
    /\ pc = "byhash loop"
    /\ head1 = None
    /\ ret' = Returned(FALSE)
    /\ pc' = "byhash done"
    /\ UNCHANGED <<held, seen, bottomup, values, key, value, next, head, head1, head2, fast,
                   iterations, call, index, output>>

NextCycleByHash ==
    \/ LinkBack
    \/ HasCycleCall
    \/ HasCycleIterate
    \/ HasCycleReturnFalse
    \/ HasCycleByHashCall
    \/ HasCycleByHashIterate
    \/ HasCycleByHashReturnFalse

SpecCycleByHash == InitCycleByHash /\ [][NextCycleByHash]_vars

\* The code runs on once called: a step that can be taken is taken.
SpecCycleByHashFair == SpecCycleByHash /\ WF_vars(NextCycleByHash)

\* has_cycle_byhash has returned what has_cycle returned on the same list.
C26_SameBoolean ==
    pc = "byhash done" =>
        /\ ret \in {Returned(TRUE), Returned(FALSE)}
        /\ ret = output
        /\ ret = Returned(TRUE) <=> ~Acyclic(next, head)

\* C26: on every list, acyclic or with a cycle (any tail, any cycle length,
\* a self-loop too), has_cycle and has_cycle_byhash both return, they
\* return the same boolean, and no link changes during either call.
C26_ByHashAgreesWithHasCycle ==
    /\ []C26_SameBoolean
    /\ [][pc # "made" => next' = next]_vars
    /\ <>(pc = "byhash done")

C26_Witness ==
    /\ pc = "byhash done"
    /\ NodeCount = 5
    /\ next[5] = 3
    /\ output = Returned(TRUE)
    /\ ret = Returned(TRUE)
    /\ seen = {1, 2, 3, 4, 5}

(***************************************************************************)
(* overlap_byhash beside overlap: on the same two lists (made separately,  *)
(* joined to a common end, or a list and a suffix of it) both functions    *)
(* are called with the arguments in either order, and what each call       *)
(* returned is kept in the order of the calls.                             *)
(***************************************************************************)

\* overlap_byhash testing only whether head2 itself is a node of the first list.
overlap_byhash_tests_head_only(nx, h1, h2) ==
    Returned(h2 \in SeqSet(get_nodes(nx, h1)))

\* overlap_byhash: not set(get_nodes(head1)).isdisjoint(get_nodes(head2))
overlap_byhash(nx, h1, h2) ==
    LET nodes1 == SeqSet(get_nodes(nx, h1))
        nodes2 == get_nodes(nx, h2)
    IN Returned(~(\A j \in DOMAIN nodes2 : nodes2[j] \notin nodes1))

Calls == <<"overlap(head1, head2)", "overlap(head2, head1)",
           "overlap_byhash(head1, head2)", "overlap_byhash(head2, head1)">>

InitOverlapByHash ==
    /\ \E a, b, c \in 0..MaxOverlapLen :
          values = <<[j \in 1..a |-> 0], [j \in 1..b |-> 0], [j \in 1..c |-> 0]>>
    /\ key = "identity"
    /\ LET made == ThreeLists(values[1], values[2], values[3])
       IN /\ value = made.value
          /\ next = made.next
          /\ head1 = made.head1
          /\ head2 = made.head2
          /\ head = made.head3
    /\ fast = None
    /\ iterations = 0
    /\ call = <<>>
    /\ index = 1
    /\ bottomup_sentinel = None
    /\ bottomup_total_length = 0
    /\ bottomup_delta = 0
    /\ seen = {}
    /\ held = {}
    /\ output = <<>>
    /\ ret = NoReturn
    /\ pc = "made"

\* The next call of Calls; the first one fixes the two lists.
CallNext(function, result) ==
    /\ \/ pc \in {"made", "joined", "suffix"} /\ index = 1
       \/ pc = "calling"
    /\ Calls[index] = function
    /\ ret' = result
    /\ output' = Append(output, result)
    /\ call' = IF index = 1 THEN <<function, pc>> ELSE <<function, call[2]>>
    /\ index' = index + 1
    /\ pc' = IF index = Len(Calls) THEN "done" ELSE "calling"
    /\ UNCHANGED <<held, seen, bottomup, values, key, value, next, head, head1, head2, fast, iterations>>

OverlapFirstSecond == CallNext("overlap(head1, head2)", overlap(next, head1, head2))
OverlapSecondFirst == CallNext("overlap(head2, head1)", overlap(next, head2, head1))
OverlapByHashFirstSecond ==
    CallNext("overlap_byhash(head1, head2)", overlap_byhash(next, head1, head2))
OverlapByHashSecondFirst ==
    CallNext("overlap_byhash(head2, head1)", overlap_byhash(next, head2, head1))

NextOverlapByHash ==
    \/ JoinShared
    \/ TakeSuffix
    \/ TakeSuffixFirst
    \/ OverlapFirstSecond
    \/ OverlapSecondFirst
    \/ OverlapByHashFirstSecond
    \/ OverlapByHashSecondFirst

SpecOverlapByHash == InitOverlapByHash /\ [][NextOverlapByHash]_vars

\* C27: on every pair of acyclic lists (separate, one a suffix of the other,
\* sharing a common end, either empty) overlap_byhash returns the boolean
\* overlap returns, and both return the same with the arguments exchanged.
C27_OverlapByHashAgrees ==
    pc = "done" =>
        /\ output[1] \in {Returned(TRUE), Returned(FALSE)}
        /\ \A j \in DOMAIN Calls : output[j] = output[1]
        /\ output[1] = Returned(SharedNodes # {})

C27_Witness ==
    /\ pc = "done"
    /\ call[2] = "joined"
    /\ length(next, head1) = 4
    /\ length(next, head2) = 3
    /\ head1 \notin SeqSet(get_nodes(next, head2))
    /\ head2 \notin SeqSet(get_nodes(next, head1))
    /\ output = <<Returned(TRUE), Returned(TRUE), Returned(TRUE), Returned(TRUE)>>

(***************************************************************************)
(* mergesort_bottomup pass by pass: the bottomup_sentinel is placed before the      *)
(* list, each step is one run of the body of the outer while loop (a whole *)
(* inner pass and the doubling of bottomup_delta), and the return ends the call.    *)
(***************************************************************************)
InitBottomup ==
    /\ values \in BoundedSeq(Values, MaxBottomupLen)
    /\ key \in Keys
    /\ LET made == make_from(EmptyHeap, EmptyHeap, values)
       IN /\ value = made.value
          /\ next = made.next
          /\ head = made.head
    /\ head1 = None
    /\ head2 = None
    /\ fast = None
    /\ iterations = 0
    /\ call = <<>>
    /\ index = 1
    /\ bottomup_sentinel = None
    /\ bottomup_total_length = 0
    /\ bottomup_delta = 0
    /\ seen = {}
    /\ held = {}
    /\ output = [s \in SeqSet(Sorters) |-> Pending]
    /\ ret = NoReturn
    /\ pc = "made"

\* mergesort_bottomup(head, key=key): sentinel = Node(None, head),
\* total_length = length(head), delta = 1
BottomupCall ==
    /\ pc = "made"
    /\ bottomup_sentinel' = NewNode(next)
    /\ next' = Alloc(next, bottomup_sentinel', head)
    /\ bottomup_total_length' = length(next, head)
    /\ bottomup_delta' = 1
    /\ iterations' = 0
    /\ call' = <<"mergesort_bottomup">>
    /\ pc' = "outer"
    /\ UNCHANGED <<held, seen, values, key, value, head, head1, head2, fast, index, output, ret>>

\* One run of the body of `while delta < total_length`.
BottomupPass ==
    /\ pc = "outer"
    /\ bottomup_delta < bottomup_total_length
    /\ next' = mergesort_bottomup_pass(next, bottomup_sentinel, bottomup_delta, key)
    /\ bottomup_delta' = 2 * bottomup_delta
    /\ iterations' = iterations + 1
    /\ UNCHANGED <<held, seen, bottomup_sentinel, bottomup_total_length, values, key, value, head, head1, head2,
                   fast, call, index, output, ret, pc>>

\* return sentinel.next
BottomupReturn ==
    /\ pc = "outer"
    /\ ~(bottomup_delta < bottomup_total_length)
    /\ ret' = Returned(next[bottomup_sentinel])
    /\ head' = next[bottomup_sentinel]
    /\ next' = Release(next, bottomup_sentinel)
    /\ pc' = "done"
    /\ UNCHANGED <<held, seen, bottomup, values, key, value, head1, head2,
                   fast, iterations, call, index, output>>

NextBottomup ==
    \/ BottomupCall
    \/ BottomupPass
    \/ BottomupReturn

SpecBottomup == InitBottomup /\ [][NextBottomup]_vars

\* The chain behind the bottomup_sentinel, and its blocks of `size` nodes from the
\* front, the last one possibly shorter.
Chain == get_nodes(next, next[bottomup_sentinel])
Block(nodes, size, b) ==
    SubSeq(nodes, (b - 1) * size + 1,
           IF b * size < Len(nodes) THEN b * size ELSE Len(nodes))
BlockCount(nodes, size) == (Len(nodes) + size - 1) \div size

\* C28: after each pass of mergesort_bottomup with block size bottomup_delta the
\* chain behind the bottomup_sentinel is acyclic and holds all bottomup_total_length input
\* nodes, each once, and every aligned block of 2 * bottomup_delta nodes (the last
\* one possibly shorter) is non-decreasing by key: a short run at the end
\* stays attached when the inner loop breaks.  (bottomup_delta is already doubled
\* when the pass has ended.)
C28_BottomupPassInvariant ==
    (pc = "outer" /\ iterations >= 1) =>
        /\ Acyclic(next, bottomup_sentinel)
        /\ Len(Chain) = bottomup_total_length
        /\ bottomup_total_length = Len(values)
        /\ ExactlyTheNodes(Chain, MadeNodes)
        /\ bottomup_sentinel \notin SeqSet(Chain)
        /\ \A b \in 1..BlockCount(Chain, bottomup_delta) :
              NonDecreasing(Block(Chain, bottomup_delta, b), key)

C28_Witness ==
    /\ pc = "outer"
    /\ iterations = 2
    /\ bottomup_delta = 4
    /\ key = "identity"
    /\ values = <<1, 0, 1, 0, -1>>
    /\ Chain = <<2, 4, 1, 3, 5>>

(***************************************************************************)
(* helpers.optional_key_selector: a call of the wrapper with positional    *)
(* arguments, a key (omitted, None or a selector) and further keyword      *)
(* arguments, and the call of the wrapped function it makes.  Keyword      *)
(* arguments are a sequence of <<name, value>> in the order passed, as a   *)
(* dict keeps them.                                                        *)
(***************************************************************************)
ArgumentValues == {"x", "y"}
KeywordNames == {"start", "reverse"}

\* The keyword arguments a call can pass: each name at most once.
KeywordArguments ==
    {kw \in BoundedSeq(KeywordNames \X ArgumentValues, Cardinality(KeywordNames)) :
        \A i, j \in DOMAIN kw : i # j => kw[i][1] # kw[j][1]}

\* list(kwargs): iterating a dict gives its keys.
dict_keys(kwargs) == [j \in DOMAIN kwargs |-> kwargs[j][1]]

\* wrapper(*args, key=None, **kwargs): key None becomes _identity_function
\* and the call made is function(*args, key=key, *kwargs), which unpacks
\* kwargs with one star: its keys follow args as positional arguments and
\* no keyword argument but key is passed.
wrapper(args, k, kwargs) ==
    [args |-> args \o dict_keys(kwargs),
     key |-> IF k \in {"omitted", "None"} THEN "identity" ELSE k,
     kwargs |-> <<>>]

InitWrapper ==
    /\ values \in BoundedSeq(ArgumentValues, MaxArgs) \X KeywordArguments
    /\ key \in Keys \cup {"omitted", "None"}
    /\ value = EmptyHeap
    /\ next = EmptyHeap
    /\ head = None
    /\ head1 = None
    /\ head2 = None
    /\ fast = None
    /\ iterations = 0
    /\ call = <<>>
    /\ index = 1
    /\ bottomup_sentinel = None
    /\ bottomup_total_length = 0
    /\ bottomup_delta = 0
    /\ seen = {}
    /\ held = {}
    /\ output = [args |-> <<>>, key |-> "identity", kwargs |-> <<>>]
    /\ ret = NoReturn
    /\ pc = "ready"

\* wrapper(*values[1], key=key, **values[2]); output is the call the
\* wrapped function receives.
CallWrapper ==
    /\ pc = "ready"
    /\ output' = wrapper(values[1], key, values[2])
    /\ call' = <<"wrapper">>
    /\ pc' = "done"
    /\ UNCHANGED <<held, seen, bottomup, values, key, value, next, head, head1, head2, fast,
                   iterations, index, ret>>

NextWrapper == CallWrapper

SpecWrapper == InitWrapper /\ [][NextWrapper]_vars

\* C30: the wrapped function receives the identity function as key when
\* key is omitted or None, every positional argument as passed, and every
\* other keyword argument as the same keyword argument with the same value.
C30_WrapperPassesArguments ==
    pc = "done" =>
        /\ key \in {"omitted", "None"} => output.key = "identity"
        /\ output.args = values[1]
        /\ output.kwargs = values[2]

====
